---------------------------- MODULE Spec2Model ----------------------------
(***************************************************************************)
(* A model of scripts/build_rtttl_json.py, the tone library compiler, and   *)
(* of scripts/resend_unsent_reports.py, the bug report mailer.             *)
(*                                                                         *)
(* A Python str is a sequence of code points (integers); None is the       *)
(* empty tuple and a present optional value v is the tuple <<v>>.          *)
(***************************************************************************)
EXTENDS Integers, Sequences, FiniteSets, TLC

(***************************************************************************)
(* Bounds of the model.                                                    *)
(***************************************************************************)
\* most files in the source directory
MaxFiles == 3
\* longest file content drawn for parse_rtttl_file
MaxContentLen == 4
\* longest file stem drawn for parse_rtttl_file
MaxStemLen == 5
\* most files in the source directory of a run whose listing order is drawn
MaxRunFiles == 2
\* most files in the source directory whose collected records are permuted
MaxPermFiles == 2
\* most reports in the collection bugReports
MaxReports == 2
\* greatest value given to --limit
MaxLimit == 1
MaxRetries == 2
MaxOverSteps == 2

(***************************************************************************)
(* Characters the code names.                                              *)
(***************************************************************************)
TAB == 9
NL == 10
CR == 13
SP == 32
HASH == 35
APOS == 39
COMMA == 44
HYPHEN == 45
DOT == 46
SLASH == 47
COLON == 58
UNDERSCORE == 95

\* str.isspace, and \s of a str pattern
IsSpace(c) ==
    \/ c \in 9..13
    \/ c \in 28..32
    \/ c \in {133, 160, 5760, 8232, 8233, 8239, 8287, 12288}
    \/ c \in 8192..8202

\* str.isprintable of one character, for the code points below 768, those of
\* the General Punctuation block, and the two specials of CHAR_REPLACEMENTS
IsPrintable(c) ==
    ~ \/ c \in 0..31
      \/ c \in 127..160
      \/ c = 173
      \/ c \in 8192..8207
      \/ c \in 8232..8239
      \/ c \in 8287..8303
      \/ c = 65279

\* \d of a str pattern, for the code points below 1632
IsDigit(c) == c \in 48..57

\* str.lower of one character, for the ASCII range and the caseless
\* characters of the alphabets used here
LowerChar(c) == IF c \in 65..90 THEN c + 32 ELSE c

\* str.lower
Lower(s) == [i \in 1..Len(s) |-> LowerChar(s[i])]

(***************************************************************************)
(* str operations.                                                         *)
(***************************************************************************)
\* s[i:] with a 1-based i
From(s, i) == SubSeq(s, i, Len(s))

\* s.startswith(p)
StartsWith(s, p) == Len(s) >= Len(p) /\ SubSeq(s, 1, Len(p)) = p

\* needle in s, for a one-character needle
Contains(s, c) == \E i \in 1..Len(s) : s[i] = c

\* s.find(p), 1-based; 0 when p does not occur
RECURSIVE FindFrom(_, _, _)
FindFrom(s, p, i) ==
    IF i + Len(p) - 1 > Len(s) THEN 0
    ELSE IF SubSeq(s, i, i + Len(p) - 1) = p THEN i
    ELSE FindFrom(s, p, i + 1)

Find(s, p) == FindFrom(s, p, 1)

\* s.strip()
RECURSIVE LStrip(_)
LStrip(s) == IF s # <<>> /\ IsSpace(Head(s)) THEN LStrip(Tail(s)) ELSE s

RECURSIVE RStrip(_)
RStrip(s) ==
    IF s # <<>> /\ IsSpace(s[Len(s)]) THEN RStrip(SubSeq(s, 1, Len(s) - 1)) ELSE s

Strip(s) == RStrip(LStrip(s))

\* s.split('\n'): the sequence of lines
RECURSIVE SplitLines(_)
SplitLines(s) ==
    LET i == Find(s, <<NL>>)
    IN  IF i = 0 THEN <<s>>
        ELSE <<SubSeq(s, 1, i - 1)>> \o SplitLines(From(s, i + 1))

\* a < b as Python compares two str: by code point, a proper prefix first
RECURSIVE StrLess(_, _)
StrLess(a, b) ==
    IF b = <<>> THEN FALSE
    ELSE IF a = <<>> THEN TRUE
    ELSE IF Head(a) # Head(b) THEN Head(a) < Head(b)
    ELSE StrLess(Tail(a), Tail(b))

\* s.replace(old, new) for a one-character old
RECURSIVE Replace(_, _, _)
Replace(s, old, new) ==
    IF ~Contains(s, old) THEN s
    ELSE (IF Head(s) = old THEN new ELSE <<Head(s)>>) \o Replace(Tail(s), old, new)

(***************************************************************************)
(* clean_string                                                            *)
(***************************************************************************)
\* the table, in its declaration order: <<old, new>>
CHAR_REPLACEMENTS == <<
    <<8218, <<COMMA>>>>,            \* single low-9 quotation mark
    <<160, <<SP>>>>,                \* non-breaking space
    <<8216, <<APOS>>>>,             \* left single quote
    <<8217, <<APOS>>>>,             \* right single quote
    <<8220, <<34>>>>,               \* left double quote
    <<8221, <<34>>>>,               \* right double quote
    <<8211, <<HYPHEN>>>>,           \* en dash
    <<8212, <<HYPHEN>>>>,           \* em dash
    <<8230, <<DOT, DOT, DOT>>>>,    \* ellipsis
    <<180, <<APOS>>>>,              \* acute accent
    <<96, <<APOS>>>>,               \* grave accent
    <<65279, <<>>>>,                \* byte-order mark
    <<8203, <<>>>>,                 \* zero-width space
    <<8204, <<>>>>,                 \* zero-width non-joiner
    <<8205, <<>>>>,                 \* zero-width joiner
    <<65533, <<>>>>                 \* replacement character
>>

\* the loop over the table, from entry k on
RECURSIVE ReplaceAll(_, _)
ReplaceAll(s, k) ==
    IF k > Len(CHAR_REPLACEMENTS) THEN s
    ELSE ReplaceAll(Replace(s, CHAR_REPLACEMENTS[k][1], CHAR_REPLACEMENTS[k][2]), k + 1)

\* the join over the characters kept
KeepPrintable(s) == SelectSeq(s, LAMBDA c : IsPrintable(c) \/ c \in {NL, CR, TAB})

\* clean_string without its filter on the characters kept
clean_string_replacing_only(s) == ReplaceAll(s, 1)

clean_string(s) == KeepPrintable(ReplaceAll(s, 1))

(***************************************************************************)
(* parse_rtttl_file                                                        *)
(***************************************************************************)
\* a line the loop passes over as a comment
IsComment(line) ==
    \/ StartsWith(line, <<SLASH, SLASH>>)
    \/ StartsWith(line, <<HASH>>)
    \/ StartsWith(line, <<APOS>>)

\* the loop without its test for comments
RECURSIVE FindRtttlLineNoCommentTest(_)
FindRtttlLineNoCommentTest(lines) ==
    IF lines = <<>> THEN <<>>
    ELSE LET line == Strip(Head(lines))
         IN  IF line = <<>> THEN FindRtttlLineNoCommentTest(Tail(lines))
             ELSE IF Contains(line, COLON) THEN <<line>>
             ELSE FindRtttlLineNoCommentTest(Tail(lines))

\* the loop over the lines: <<rtttl_line>>, or <<>> when no line is taken
RECURSIVE FindRtttlLine(_)
FindRtttlLine(lines) ==
    IF lines = <<>> THEN <<>>
    ELSE LET line == Strip(Head(lines))
         IN  IF line = <<>> THEN FindRtttlLine(Tail(lines))
             ELSE IF IsComment(line) THEN FindRtttlLine(Tail(lines))
             ELSE IF Contains(line, COLON) THEN <<line>>
             ELSE FindRtttlLine(Tail(lines))

\* the last index of s that holds c, or 0
RECURSIVE RFind(_, _, _)
RFind(s, c, i) == IF i = 0 THEN 0 ELSE IF s[i] = c THEN i ELSE RFind(s, c, i - 1)

\* the tone name cut at the last colon of the line instead of the first
ToneNameOfLastColon(rtttl_line) ==
    LET colon_idx == RFind(rtttl_line, COLON, Len(rtttl_line))
    IN  IF colon_idx > 1 THEN Strip(SubSeq(rtttl_line, 1, colon_idx - 1)) ELSE <<>>

\* the part of the rtttl line before its first colon, stripped
ToneNameOf(rtttl_line) ==
    LET colon_idx == Find(rtttl_line, <<COLON>>)
    IN  IF colon_idx > 1 THEN Strip(SubSeq(rtttl_line, 1, colon_idx - 1)) ELSE <<>>

\* the 1-based index of the last dot of a name that starts a suffix, or 0
RECURSIVE LastDot(_, _)
LastDot(name, i) ==
    IF i <= 1 THEN 0
    ELSE IF name[i] = DOT THEN i
    ELSE LastDot(name, i - 1)

\* Path.stem: the name without its last suffix
Stem(name) ==
    LET d == LastDot(name, Len(name))
    IN  IF d = 0 \/ d = Len(name) THEN name ELSE SubSeq(name, 1, d - 1)

\* Path.suffix
Suffix(name) ==
    LET d == LastDot(name, Len(name))
    IN  IF d = 0 \/ d = Len(name) THEN <<>> ELSE From(name, d)

\* the separator of "Artist - Song"
ArtistSep == <<SP, HYPHEN, SP>>

\* the name as taken without stripping the two parts of the split
SplitNameUnstripped(filename) ==
    LET i == Find(filename, ArtistSep)
    IN  IF i = 0 THEN [displayName |-> filename, artist |-> <<>>]
        ELSE [displayName |-> From(filename, i + 3),
              artist |-> <<SubSeq(filename, 1, i - 1)>>]

\* display name and artist taken from the cleaned stem
SplitName(filename) ==
    LET i == Find(filename, ArtistSep)
    IN  IF i = 0 THEN [displayName |-> filename, artist |-> <<>>]
        ELSE [displayName |-> Strip(From(filename, i + 3)),
              artist |-> <<Strip(SubSeq(filename, 1, i - 1))>>]

\* the newline translation of a file read in text mode: '\r\n' and '\r'
\* are read as '\n'
RECURSIVE UniversalNewlines(_)
UniversalNewlines(s) ==
    IF s = <<>> THEN <<>>
    ELSE IF Head(s) = CR
         THEN <<NL>> \o UniversalNewlines(IF Len(s) >= 2 /\ s[2] = NL
                                          THEN From(s, 3) ELSE Tail(s))
    ELSE <<Head(s)>> \o UniversalNewlines(Tail(s))

\* filepath.read_text(encoding='utf-8', errors='ignore') of a readable file
\* whose bytes decode to the characters of content
ReadText(file) == UniversalNewlines(file.content)

\* a file: its name, whether read_text succeeds, and the characters it holds
\* parse_rtttl_file: <<record>>, or <<>> for None
parse_rtttl_file(file) ==
    IF ~file.readable THEN <<>>
    ELSE LET content == Strip(ReadText(file))
         IN  IF content = <<>> THEN <<>>
             ELSE LET found == FindRtttlLine(SplitLines(clean_string(content)))
                  IN  IF found = <<>> THEN <<>>
                      ELSE LET rtttl_line == found[1]
                               nm == SplitName(clean_string(Stem(file.name)))
                           IN  << [filename |-> file.name,
                                   displayName |-> nm.displayName,
                                   toneName |-> ToneNameOf(rtttl_line),
                                   artist |-> nm.artist,
                                   rtttl |-> rtttl_line,
                                   builtin |-> FALSE] >>

(***************************************************************************)
(* BUILTIN_PRESETS                                                         *)
(***************************************************************************)
BUILTIN_PRESETS == <<
    \* _builtin_meshtastic_default: 'Meshtastic Default', toneName '24', artist 'Meshtastic'
    \* rtttl '24:d=32,o=5,b=565:f6,p,f6,4p,p,f6,p,f6,2p,p,b6,p,b6,p,b6,p,b6,p,b,p,b,p,b,p,b,p,b,p,b,p,b,p,b,1p.,2p.,p'
    [filename |-> <<95, 98, 117, 105, 108, 116, 105, 110, 95, 109, 101, 115, 104, 116, 97, 115, 116, 105, 99, 95, 100, 101, 102, 97, 117, 108, 116>>,
     displayName |-> <<77, 101, 115, 104, 116, 97, 115, 116, 105, 99, 32, 68, 101, 102, 97, 117, 108, 116>>,
     toneName |-> <<50, 52>>,
     artist |-> <<<<77, 101, 115, 104, 116, 97, 115, 116, 105, 99>>>>,
     rtttl |-> <<50, 52, 58, 100, 61, 51, 50, 44, 111, 61, 53, 44, 98, 61, 53, 54, 53, 58, 102, 54, 44, 112, 44, 102, 54, 44, 52, 112, 44, 112, 44, 102, 54, 44, 112, 44, 102, 54, 44, 50, 112, 44, 112, 44, 98, 54, 44, 112, 44, 98, 54, 44, 112, 44, 98, 54, 44, 112, 44, 98, 54, 44, 112, 44, 98, 44, 112, 44, 98, 44, 112, 44, 98, 44, 112, 44, 98, 44, 112, 44, 98, 44, 112, 44, 98, 44, 112, 44, 98, 44, 112, 44, 98, 44, 49, 112, 46, 44, 50, 112, 46, 44, 112>>,
     builtin |-> TRUE],
    \* _builtin_nokia: 'Nokia Ringtone', toneName '24', artist 'Nokia'
    \* rtttl '24:d=4,o=5,b=180:8e6,8d6,f#,g#,8c#6,8b,d,e,8b,8a,c#,e,2a'
    [filename |-> <<95, 98, 117, 105, 108, 116, 105, 110, 95, 110, 111, 107, 105, 97>>,
     displayName |-> <<78, 111, 107, 105, 97, 32, 82, 105, 110, 103, 116, 111, 110, 101>>,
     toneName |-> <<50, 52>>,
     artist |-> <<<<78, 111, 107, 105, 97>>>>,
     rtttl |-> <<50, 52, 58, 100, 61, 52, 44, 111, 61, 53, 44, 98, 61, 49, 56, 48, 58, 56, 101, 54, 44, 56, 100, 54, 44, 102, 35, 44, 103, 35, 44, 56, 99, 35, 54, 44, 56, 98, 44, 100, 44, 101, 44, 56, 98, 44, 56, 97, 44, 99, 35, 44, 101, 44, 50, 97>>,
     builtin |-> TRUE],
    \* _builtin_zelda: 'Zelda Get Item', toneName '24', artist 'Nintendo'
    \* rtttl '24:d=16,o=5,b=120:g,c6,d6,2g6'
    [filename |-> <<95, 98, 117, 105, 108, 116, 105, 110, 95, 122, 101, 108, 100, 97>>,
     displayName |-> <<90, 101, 108, 100, 97, 32, 71, 101, 116, 32, 73, 116, 101, 109>>,
     toneName |-> <<50, 52>>,
     artist |-> <<<<78, 105, 110, 116, 101, 110, 100, 111>>>>,
     rtttl |-> <<50, 52, 58, 100, 61, 49, 54, 44, 111, 61, 53, 44, 98, 61, 49, 50, 48, 58, 103, 44, 99, 54, 44, 100, 54, 44, 50, 103, 54>>,
     builtin |-> TRUE],
    \* _builtin_mario_coin: 'Mario Coin', toneName '24', artist 'Nintendo'
    \* rtttl '24:d=8,o=6,b=200:b,e7'
    [filename |-> <<95, 98, 117, 105, 108, 116, 105, 110, 95, 109, 97, 114, 105, 111, 95, 99, 111, 105, 110>>,
     displayName |-> <<77, 97, 114, 105, 111, 32, 67, 111, 105, 110>>,
     toneName |-> <<50, 52>>,
     artist |-> <<<<78, 105, 110, 116, 101, 110, 100, 111>>>>,
     rtttl |-> <<50, 52, 58, 100, 61, 56, 44, 111, 61, 54, 44, 98, 61, 50, 48, 48, 58, 98, 44, 101, 55>>,
     builtin |-> TRUE],
    \* _builtin_mario_powerup: 'Mario Power Up', toneName 'powerup', artist 'Nintendo'
    \* rtttl 'powerup:d=16,o=5,b=200:g,a,b,c6,d6,e6,f#6,g6,a6,b6,2c7'
    [filename |-> <<95, 98, 117, 105, 108, 116, 105, 110, 95, 109, 97, 114, 105, 111, 95, 112, 111, 119, 101, 114, 117, 112>>,
     displayName |-> <<77, 97, 114, 105, 111, 32, 80, 111, 119, 101, 114, 32, 85, 112>>,
     toneName |-> <<112, 111, 119, 101, 114, 117, 112>>,
     artist |-> <<<<78, 105, 110, 116, 101, 110, 100, 111>>>>,
     rtttl |-> <<112, 111, 119, 101, 114, 117, 112, 58, 100, 61, 49, 54, 44, 111, 61, 53, 44, 98, 61, 50, 48, 48, 58, 103, 44, 97, 44, 98, 44, 99, 54, 44, 100, 54, 44, 101, 54, 44, 102, 35, 54, 44, 103, 54, 44, 97, 54, 44, 98, 54, 44, 50, 99, 55>>,
     builtin |-> TRUE],
    \* _builtin_mario_theme: 'Mario Theme', toneName '24', artist 'Nintendo'
    \* rtttl '24:d=4,o=5,b=100:16e6,16e6,32p,8e6,16c6,8e6,8g6,8p,8g'
    [filename |-> <<95, 98, 117, 105, 108, 116, 105, 110, 95, 109, 97, 114, 105, 111, 95, 116, 104, 101, 109, 101>>,
     displayName |-> <<77, 97, 114, 105, 111, 32, 84, 104, 101, 109, 101>>,
     toneName |-> <<50, 52>>,
     artist |-> <<<<78, 105, 110, 116, 101, 110, 100, 111>>>>,
     rtttl |-> <<50, 52, 58, 100, 61, 52, 44, 111, 61, 53, 44, 98, 61, 49, 48, 48, 58, 49, 54, 101, 54, 44, 49, 54, 101, 54, 44, 51, 50, 112, 44, 56, 101, 54, 44, 49, 54, 99, 54, 44, 56, 101, 54, 44, 56, 103, 54, 44, 56, 112, 44, 56, 103>>,
     builtin |-> TRUE],
    \* _builtin_morse_cq: 'Morse CQ', toneName '24', artist None
    \* rtttl '24:d=16,o=6,b=120:8c,p,c,p,8c,p,c,4p,8c,p,8c,p,c,p,8c,8p'
    [filename |-> <<95, 98, 117, 105, 108, 116, 105, 110, 95, 109, 111, 114, 115, 101, 95, 99, 113>>,
     displayName |-> <<77, 111, 114, 115, 101, 32, 67, 81>>,
     toneName |-> <<50, 52>>,
     artist |-> <<>>,
     rtttl |-> <<50, 52, 58, 100, 61, 49, 54, 44, 111, 61, 54, 44, 98, 61, 49, 50, 48, 58, 56, 99, 44, 112, 44, 99, 44, 112, 44, 56, 99, 44, 112, 44, 99, 44, 52, 112, 44, 56, 99, 44, 112, 44, 56, 99, 44, 112, 44, 99, 44, 112, 44, 56, 99, 44, 56, 112>>,
     builtin |-> TRUE],
    \* _builtin_simple_beep: 'Simple Beep', toneName '24', artist None
    \* rtttl '24:d=4,o=5,b=120:c6,p,c6'
    [filename |-> <<95, 98, 117, 105, 108, 116, 105, 110, 95, 115, 105, 109, 112, 108, 101, 95, 98, 101, 101, 112>>,
     displayName |-> <<83, 105, 109, 112, 108, 101, 32, 66, 101, 101, 112>>,
     toneName |-> <<50, 52>>,
     artist |-> <<>>,
     rtttl |-> <<50, 52, 58, 100, 61, 52, 44, 111, 61, 53, 44, 98, 61, 49, 50, 48, 58, 99, 54, 44, 112, 44, 99, 54>>,
     builtin |-> TRUE],
    \* _builtin_alert: 'Alert', toneName '24', artist None
    \* rtttl '24:d=8,o=6,b=140:c,e,g,c7,p,c7,g,e,c'
    [filename |-> <<95, 98, 117, 105, 108, 116, 105, 110, 95, 97, 108, 101, 114, 116>>,
     displayName |-> <<65, 108, 101, 114, 116>>,
     toneName |-> <<50, 52>>,
     artist |-> <<>>,
     rtttl |-> <<50, 52, 58, 100, 61, 56, 44, 111, 61, 54, 44, 98, 61, 49, 52, 48, 58, 99, 44, 101, 44, 103, 44, 99, 55, 44, 112, 44, 99, 55, 44, 103, 44, 101, 44, 99>>,
     builtin |-> TRUE],
    \* _builtin_ping: 'Ping', toneName '24', artist None
    \* rtttl '24:d=16,o=6,b=200:e,p,e'
    [filename |-> <<95, 98, 117, 105, 108, 116, 105, 110, 95, 112, 105, 110, 103>>,
     displayName |-> <<80, 105, 110, 103>>,
     toneName |-> <<50, 52>>,
     artist |-> <<>>,
     rtttl |-> <<50, 52, 58, 100, 61, 49, 54, 44, 111, 61, 54, 44, 98, 61, 50, 48, 48, 58, 101, 44, 112, 44, 101>>,
     builtin |-> TRUE],
    \* _builtin_pager: 'Pager', toneName 'Pager', artist None
    \* rtttl 'Pager:d=8,o=5,b=160:d6,16p,2d6,16p,d6,16p,2d6,16p,d6,16p,2d6.'
    [filename |-> <<95, 98, 117, 105, 108, 116, 105, 110, 95, 112, 97, 103, 101, 114>>,
     displayName |-> <<80, 97, 103, 101, 114>>,
     toneName |-> <<80, 97, 103, 101, 114>>,
     artist |-> <<>>,
     rtttl |-> <<80, 97, 103, 101, 114, 58, 100, 61, 56, 44, 111, 61, 53, 44, 98, 61, 49, 54, 48, 58, 100, 54, 44, 49, 54, 112, 44, 50, 100, 54, 44, 49, 54, 112, 44, 100, 54, 44, 49, 54, 112, 44, 50, 100, 54, 44, 49, 54, 112, 44, 100, 54, 44, 49, 54, 112, 44, 50, 100, 54, 46>>,
     builtin |-> TRUE]
>>

(***************************************************************************)
(* The regular expressions of main.                                        *)
(***************************************************************************)
\* the first index from i on that holds no whitespace
RECURSIVE SkipSpaces(_, _)
SkipSpaces(s, i) == IF i <= Len(s) /\ IsSpace(s[i]) THEN SkipSpaces(s, i + 1) ELSE i

\* the first index from i on that holds no digit
RECURSIVE SkipDigits(_, _)
SkipDigits(s, i) == IF i <= Len(s) /\ IsDigit(s[i]) THEN SkipDigits(s, i + 1) ELSE i

\* where $ matches: at the end, or before a newline that ends the string
AtEnd(s, i) == i = Len(s) + 1 \/ (i = Len(s) /\ s[i] = NL)

\* re.search(r'[vV]?\d+$', name)
HasVersion(name) == \E k \in 2..(Len(name) + 1) : AtEnd(name, k) /\ IsDigit(name[k - 1])

\* the length of the match of \s*[\(\[].*?[\)\]] at the start of s, or 0
BracketMatchLen(s) ==
    LET j == SkipSpaces(s, 1)
        closers == {k \in (j + 1)..Len(s) :
                       /\ s[k] \in {41, 93}
                       /\ \A m \in (j + 1)..(k - 1) : s[m] # NL}
    IN  IF j <= Len(s) /\ s[j] \in {40, 91} /\ closers # {}
        THEN CHOOSE k \in closers : \A k2 \in closers : k <= k2
        ELSE 0

\* re.sub(r'\s*[\(\[].*?[\)\]]', '', name)
RECURSIVE RemoveBracketed(_)
RemoveBracketed(s) ==
    IF s = <<>> THEN <<>>
    ELSE LET m == BracketMatchLen(s)
         IN  IF m > 0 THEN RemoveBracketed(From(s, m + 1))
             ELSE <<Head(s)>> \o RemoveBracketed(Tail(s))

\* the length of the match of \s*[marks]\s*\d+$ (inner: with the second \s*)
\* at the start of s, or 0
SuffixMatchLen(s, marks, inner) ==
    LET j == SkipSpaces(s, 1)
        k0 == IF inner THEN SkipSpaces(s, j + 1) ELSE j + 1
        k == SkipDigits(s, k0)
    IN  IF j <= Len(s) /\ s[j] \in marks /\ k > k0 /\ AtEnd(s, k) THEN k - 1 ELSE 0

\* re.sub of such a pattern by '': the leftmost match is removed
RECURSIVE RemoveSuffix(_, _, _)
RemoveSuffix(s, marks, inner) ==
    IF s = <<>> THEN <<>>
    ELSE LET m == SuffixMatchLen(s, marks, inner)
         IN  IF m > 0 THEN From(s, m + 1)
             ELSE <<Head(s)>> \o RemoveSuffix(Tail(s), marks, inner)

\* re.sub(r'[^a-z0-9]', '', s)
KeepAlnum(s) == SelectSeq(s, LAMBDA c : c \in 97..122 \/ c \in 48..57)

normalize_name(name) ==
    KeepAlnum(Lower(
        RemoveSuffix(
            RemoveSuffix(RemoveBracketed(name), {HYPHEN, UNDERSCORE}, TRUE),
            {118, 86}, FALSE)))

\* the test of a .bas record without its search for a note letter
LooksLikeRtttlCommaOnly(rtttl) == {i \in 1..Len(rtttl) : rtttl[i] = COMMA} # {}

\* re.search(r'[a-gp]', rtttl, re.IGNORECASE) and ',' in rtttl
LooksLikeRtttl(rtttl) ==
    /\ {i \in 1..Len(rtttl) : LowerChar(rtttl[i]) \in (97..103) \cup {112}} # {}
    /\ {i \in 1..Len(rtttl) : rtttl[i] = COMMA} # {}

(***************************************************************************)
(* The state of one run of main, and of one call of parse_rtttl_file.      *)
(***************************************************************************)
VARIABLES
    dirExists,    \* whether assets/rtttl exists
    dir,          \* the files of assets/rtttl
    outputFile,   \* assets/rtttl_library.json: <<>> when absent, else <<document>>
    pc,           \* the position of main
    todo,         \* the files the running scan loop has still to visit
    scanned,      \* how many files the scan loops have visited
    tones,        \* the list tones
    skipped,      \* the counter skipped
    seen,         \* the values of seen_rtttl, then of seen_names, in insertion order
    idx,          \* the position of the running dedup loop in tones
    exitCode,     \* the value main returns: <<>> while it runs
    pfile,        \* the argument of the call of parse_rtttl_file
    presult,      \* what the call returned
    ppc,          \* the position of the call
    args,         \* resend_unsent_reports: the parsed command line
    environ,      \* the environment variables the script reads
    db,           \* the Firestore collection bugReports
    unsent,       \* the list unsent: the ids of the reports selected
    ans,          \* what was typed at the prompt: <<>> before it, else <<text>>
    rpc,          \* the position of the script
    cursor,       \* the position of the send loop in unsent
    sent,         \* the flag sent of the running iteration
    last_error,   \* last_error of the running iteration: <<>> for None
    smtpLog,      \* the SMTP sessions opened so far
    status,       \* the exit status: <<>> while the script runs
    message,      \* the last line the script printed about its course
    uargs,        \* copilot_usage: the namespace parse_args returns
    uenviron,     \* the environment of the run: variables, date, standard input
    budget,       \* budget: <<>> for None, else <<amount>>
    usage_percent,\* usage_percent: <<>> for None, else <<tenths of a percent>>
    bill,         \* bill: <<>> before calculate_bill, else <<dict>>
    projection,   \* projection: <<>> for None, else <<dict>>
    upc,          \* the position of main
    ustatus       \* the exit status of the script: <<>> while it runs

\* the variables of resend_unsent_reports
resendVars == <<args, environ, db, unsent, ans, rpc, cursor, sent, last_error, smtpLog,
                status, message>>

copilotVars == <<uargs, uenviron, budget, usage_percent, bill, projection, upc, ustatus>>

vars == <<dirExists, dir, outputFile, pc, todo, scanned, tones, skipped, seen, idx,
          exitCode, pfile, presult, ppc, resendVars, copilotVars>>

mainVars == <<dirExists, dir, outputFile, pc, todo, scanned, tones, skipped, seen, idx,
              exitCode>>

parseVars == <<pfile, presult, ppc>>

\* copilot_usage is not running
CopilotIdle ==
    /\ uargs = <<>>
    /\ uenviron = <<>>
    /\ budget = <<>>
    /\ usage_percent = <<>>
    /\ bill = <<>>
    /\ projection = <<>>
    /\ upc = "idle"
    /\ ustatus = <<>>

\* resend_unsent_reports is not running
ResendIdle ==
    /\ args = <<>>
    /\ environ = <<>>
    /\ db = <<>>
    /\ unsent = <<>>
    /\ ans = <<>>
    /\ rpc = "idle"
    /\ cursor = 1
    /\ sent = FALSE
    /\ last_error = <<>>
    /\ smtpLog = <<>>
    /\ status = <<>>
    /\ message = ""

(***************************************************************************)
(* The inputs drawn.                                                       *)
(***************************************************************************)
ExtTxt == <<DOT, 116, 120, 116>>
ExtBas == <<DOT, 98, 97, 115>>

\* 'ping', 'Ping V2', 'Zed', 'Zed2'
DirStems == {
    <<112, 105, 110, 103>>,
    <<80, 105, 110, 103, 32, 86, 50>>,
    <<90, 101, 100>>,
    <<90, 101, 100, 50>>
}

\* the rtttl of the built-in Ping, 'z:c,d', 'z:1,2'
DirContents == {
    BUILTIN_PRESETS[10].rtttl,
    <<122, 58, 99, 44, 100>>,
    <<122, 58, 49, 44, 50>>
}

\* 'Zed': the stem of the files that may be unreadable, or empty
UnreadableStem == <<90, 101, 100>>

\* 'Zed2': the stem of the files that may hold more than one line
MultiLineStem == <<90, 101, 100, 50>>

\* an empty file
EmptyContent == <<>>

\* 'e,': a file without a tone definition line
NoToneLineContent == <<101, COMMA>>

\* 'e,' and 'z:1 2' on two lines: a note letter and a comma, neither of them
\* on the tone definition line
MixedContent == <<101, COMMA, NL, 122, COLON, 49, SP, 50>>

\* the names a directory may hold
DirNames == {st \o ext : st \in DirStems, ext \in {ExtTxt, ExtBas}}

\* what a name may lead to: a text read_text returns, or a file it fails on
FileData ==
    {[readable |-> TRUE, content |-> c] :
        c \in DirContents \cup {EmptyContent, NoToneLineContent, MixedContent}}
    \cup {[readable |-> FALSE, content |-> <<>>]}

\* the unreadable and the empty files drawn are those of one stem; the file
\* without a tone line is a .txt and the file of two lines a .bas of another
MayHold(name, data) ==
    IF ~data.readable \/ data.content = EmptyContent THEN Stem(name) = UnreadableStem
    ELSE IF data.content = NoToneLineContent THEN name = MultiLineStem \o ExtTxt
    ELSE IF data.content = MixedContent THEN name = MultiLineStem \o ExtBas
    ELSE TRUE

\* the directories of at most n files: a directory maps each name it holds
\* to what the name leads to
DirsUpTo(n) ==
    UNION {{d \in [N -> FileData] : \A name \in N : MayHold(name, d[name])} :
              N \in {M \in SUBSET DirNames : Cardinality(M) <= n}}

\* the file of a name and what it leads to, as parse_rtttl_file sees it
FileOf(name, data) == [name |-> name, readable |-> data.readable, content |-> data.content]

\* parse_rtttl_file(filepath) for each file a directory may hold
ParsedFile == [name \in DirNames, data \in FileData |-> parse_rtttl_file(FileOf(name, data))]

\* the result of parse_rtttl_file for a file of the directory
Parsed(name) == ParsedFile[name, dir[name]]

\* a document left by an earlier run
OldDocument == [version |-> 1, tones |-> <<BUILTIN_PRESETS[1]>>]

(***************************************************************************)
(* main                                                                    *)
(***************************************************************************)
\* sorted(paths): the paths of one directory, by name; the path at rank r
\* has r - 1 paths below it
SortedNames(S) ==
    [r \in 1..Cardinality(S) |->
        CHOOSE f \in S : Cardinality({g \in S : StrLess(g, f)}) = r - 1]

\* sorted(rtttl_dir.glob('*' + ext))
Glob(ext) == SortedNames({name \in DOMAIN dir : Suffix(name) = ext})

\* the key of both sorts
SortKey(tone) == Lower(tone.displayName)

\* the rank list.sort(key=...) gives the element at index i: the sort is
\* stable, so the elements before it are those of a lesser key and those of
\* its key that stood before it
SortRank(s, i) ==
    1 + Cardinality({j \in 1..Len(s) :
            \/ StrLess(SortKey(s[j]), SortKey(s[i]))
            \/ SortKey(s[j]) = SortKey(s[i]) /\ j < i})

\* tones.sort(key=lambda x: x['displayName'].lower())
SortTones(s) == [r \in 1..Len(s) |-> s[CHOOSE i \in 1..Len(s) : SortRank(s, i) = r]]

\* the index in keys of the key k, or 0: the entry a dict holds under k
RECURSIVE IndexOfKey(_, _, _)
IndexOfKey(keys, k, i) ==
    IF i > Len(keys) THEN 0
    ELSE IF keys[i] = k THEN i
    ELSE IndexOfKey(keys, k, i + 1)

\* the key of seen_rtttl
RtttlKey(tone) == Strip(tone.rtttl)

\* normalize_name of the display name of each file a directory may hold
NormalizedName ==
    [name \in DirNames |-> normalize_name(SplitName(clean_string(Stem(name))).displayName)]

\* the key of seen_names: normalize_name(tone['displayName'])
NameKey(tone) == NormalizedName[tone.filename]

\* the first pass with its comparison of the lengths turned round
RtttlReplacesLonger(existing, new) ==
    LET existing_has_version == HasVersion(existing.displayName)
        new_has_version == HasVersion(new.displayName)
    IN  IF existing_has_version /\ ~new_has_version THEN TRUE
        ELSE IF ~existing_has_version /\ new_has_version THEN FALSE
        ELSE Len(new.displayName) > Len(existing.displayName)

\* whether the first pass replaces the entry existing by the tone new
RtttlReplaces(existing, new) ==
    LET existing_has_version == HasVersion(existing.displayName)
        new_has_version == HasVersion(new.displayName)
    IN  IF existing_has_version /\ ~new_has_version THEN TRUE
        ELSE IF ~existing_has_version /\ new_has_version THEN FALSE
        ELSE Len(new.displayName) < Len(existing.displayName)

\* the second pass without its rule for rtttl of one length
NameReplacesShorterOnly(existing, new) == Len(new.rtttl) < Len(existing.rtttl)

\* whether the second pass replaces the entry existing by the tone new
NameReplaces(existing, new) ==
    IF Len(new.rtttl) < Len(existing.rtttl) THEN TRUE
    ELSE IF Len(new.rtttl) = Len(existing.rtttl)
         THEN Contains(new.displayName, SP) /\ ~Contains(existing.displayName, SP)
    ELSE FALSE

\* the filter on the names of the built-in presets
builtin_names == {Lower(BUILTIN_PRESETS[i].displayName) : i \in 1..Len(BUILTIN_PRESETS)}

\* the filter comparing the names as they stand
NotBuiltinNameCaseSensitive(tone) ==
    tone.displayName \notin {BUILTIN_PRESETS[i].displayName : i \in 1..Len(BUILTIN_PRESETS)}

NotBuiltinName(tone) == Lower(tone.displayName) \notin builtin_names

\* the list with the built-in presets put after the library
AllTonesBuiltinsLast(ts) == SelectSeq(ts, NotBuiltinName) \o BUILTIN_PRESETS

\* the list all_tones
AllTones(ts) == BUILTIN_PRESETS \o SelectSeq(ts, NotBuiltinName)

\* the absent directory taken for an empty one: the built-in presets are
\* written before main returns 1
DirMissingWritesBuiltins ==
    /\ pc = "start"
    /\ ~dirExists
    /\ pc' = "exit"
    /\ exitCode' = <<1>>
    /\ outputFile' = <<[version |-> 1, tones |-> BUILTIN_PRESETS]>>
    /\ UNCHANGED <<dirExists, dir, todo, scanned, tones, skipped, seen, idx,
                   pfile, presult, ppc, resendVars, copilotVars>>

\* the source directory is absent: return 1
DirMissing ==
    /\ pc = "start"
    /\ ~dirExists
    /\ pc' = "exit"
    /\ exitCode' = <<1>>
    /\ UNCHANGED <<dirExists, dir, outputFile, todo, scanned, tones, skipped, seen, idx,
                   pfile, presult, ppc, resendVars, copilotVars>>

\* the source directory exists: the scan of the .txt files starts
BeginScan ==
    /\ pc = "start"
    /\ dirExists
    /\ pc' = "scan_txt"
    /\ todo' = Glob(ExtTxt)
    /\ tones' = <<>>
    /\ skipped' = 0
    /\ UNCHANGED <<dirExists, dir, outputFile, scanned, seen, idx, exitCode,
                   pfile, presult, ppc, resendVars, copilotVars>>

\* one .txt file that parses
ScanTxtAccept ==
    /\ pc = "scan_txt"
    /\ todo # <<>>
    /\ Parsed(Head(todo)) # <<>>
    /\ tones' = tones \o Parsed(Head(todo))
    /\ todo' = Tail(todo)
    /\ scanned' = scanned + 1
    /\ UNCHANGED <<dirExists, dir, outputFile, pc, skipped, seen, idx, exitCode,
                   pfile, presult, ppc, resendVars, copilotVars>>

\* one .txt file that does not
ScanTxtSkip ==
    /\ pc = "scan_txt"
    /\ todo # <<>>
    /\ Parsed(Head(todo)) = <<>>
    /\ skipped' = skipped + 1
    /\ todo' = Tail(todo)
    /\ scanned' = scanned + 1
    /\ UNCHANGED <<dirExists, dir, outputFile, pc, tones, seen, idx, exitCode,
                   pfile, presult, ppc, resendVars, copilotVars>>

\* the .txt files are done: the scan of the .bas files starts
BeginBas ==
    /\ pc = "scan_txt"
    /\ todo = <<>>
    /\ pc' = "scan_bas"
    /\ todo' = Glob(ExtBas)
    /\ UNCHANGED <<dirExists, dir, outputFile, scanned, tones, skipped, seen, idx, exitCode,
                   pfile, presult, ppc, resendVars, copilotVars>>

\* one .bas file that parses and looks like RTTTL
ScanBasAccept ==
    /\ pc = "scan_bas"
    /\ todo # <<>>
    /\ Parsed(Head(todo)) # <<>>
    /\ LooksLikeRtttl(Parsed(Head(todo))[1].rtttl)
    /\ tones' = tones \o Parsed(Head(todo))
    /\ todo' = Tail(todo)
    /\ scanned' = scanned + 1
    /\ UNCHANGED <<dirExists, dir, outputFile, pc, skipped, seen, idx, exitCode,
                   pfile, presult, ppc, resendVars, copilotVars>>

\* the rejection of a .bas file that leaves the counter skipped as it is
ScanBasRejectUncounted ==
    /\ pc = "scan_bas"
    /\ todo # <<>>
    /\ Parsed(Head(todo)) # <<>>
    /\ ~LooksLikeRtttl(Parsed(Head(todo))[1].rtttl)
    /\ todo' = Tail(todo)
    /\ scanned' = scanned + 1
    /\ UNCHANGED <<dirExists, dir, outputFile, pc, tones, skipped, seen, idx, exitCode,
                   pfile, presult, ppc, resendVars, copilotVars>>

\* one .bas file that parses and does not look like RTTTL
ScanBasReject ==
    /\ pc = "scan_bas"
    /\ todo # <<>>
    /\ Parsed(Head(todo)) # <<>>
    /\ ~LooksLikeRtttl(Parsed(Head(todo))[1].rtttl)
    /\ skipped' = skipped + 1
    /\ todo' = Tail(todo)
    /\ scanned' = scanned + 1
    /\ UNCHANGED <<dirExists, dir, outputFile, pc, tones, seen, idx, exitCode,
                   pfile, presult, ppc, resendVars, copilotVars>>

\* one .bas file that does not parse
ScanBasSkip ==
    /\ pc = "scan_bas"
    /\ todo # <<>>
    /\ Parsed(Head(todo)) = <<>>
    /\ skipped' = skipped + 1
    /\ todo' = Tail(todo)
    /\ scanned' = scanned + 1
    /\ UNCHANGED <<dirExists, dir, outputFile, pc, tones, seen, idx, exitCode,
                   pfile, presult, ppc, resendVars, copilotVars>>

\* the .bas files are done: tones is sorted and the first pass starts
BeginDedupRtttl ==
    /\ pc = "scan_bas"
    /\ todo = <<>>
    /\ tones' = SortTones(tones)
    /\ seen' = <<>>
    /\ idx' = 1
    /\ pc' = "dedup_rtttl"
    /\ UNCHANGED <<dirExists, dir, outputFile, todo, scanned, skipped, exitCode,
                   pfile, presult, ppc, resendVars, copilotVars>>

\* one iteration of the first pass, by rtttl: the tone enters seen_rtttl under
\* a new key, or replaces the entry of its key, or is dropped
DedupRtttlStep ==
    LET tone == tones[idx]
        at == IndexOfKey([i \in 1..Len(seen) |-> RtttlKey(seen[i])], RtttlKey(tone), 1)
    IN  /\ pc = "dedup_rtttl"
        /\ idx <= Len(tones)
        /\ seen' = IF at = 0 THEN Append(seen, tone)
                   ELSE IF RtttlReplaces(seen[at], tone) THEN [seen EXCEPT ![at] = tone]
                   ELSE seen
        /\ idx' = idx + 1
        /\ UNCHANGED <<dirExists, dir, outputFile, pc, todo, scanned, tones, skipped,
                       exitCode, pfile, presult, ppc, resendVars, copilotVars>>

\* the first pass is done: tones is the values of seen_rtttl; the second starts
BeginDedupName ==
    /\ pc = "dedup_rtttl"
    /\ idx > Len(tones)
    /\ tones' = seen
    /\ seen' = <<>>
    /\ idx' = 1
    /\ pc' = "dedup_name"
    /\ UNCHANGED <<dirExists, dir, outputFile, todo, scanned, skipped, exitCode,
                   pfile, presult, ppc, resendVars, copilotVars>>

\* one iteration of the second pass, by normalized display name: the tone
\* enters seen_names under a new key, or replaces the entry of its key, or is
\* dropped
DedupNameStep ==
    LET tone == tones[idx]
        at == IndexOfKey([i \in 1..Len(seen) |-> NameKey(seen[i])], NameKey(tone), 1)
    IN  /\ pc = "dedup_name"
        /\ idx <= Len(tones)
        /\ seen' = IF at = 0 THEN Append(seen, tone)
                   ELSE IF NameReplaces(seen[at], tone) THEN [seen EXCEPT ![at] = tone]
                   ELSE seen
        /\ idx' = idx + 1
        /\ UNCHANGED <<dirExists, dir, outputFile, pc, todo, scanned, tones, skipped,
                       exitCode, pfile, presult, ppc, resendVars, copilotVars>>

\* the list the second pass leaves, without the sort that follows it
FinalOrderUnsorted(s) == s

\* the list the second pass leaves, sorted
FinalOrder(s) == SortTones(s)

\* the end of main made an incremental update: the entries of the document
\* found are kept after the new ones
WriteOutputKeepingOld ==
    /\ pc = "dedup_name"
    /\ idx > Len(tones)
    /\ tones' = SelectSeq(FinalOrder(seen), NotBuiltinName)
    /\ outputFile' = <<[version |-> 1,
                        tones |-> AllTones(FinalOrder(seen))
                                      \o (IF outputFile = <<>> THEN <<>>
                                          ELSE outputFile[1].tones)]>>
    /\ exitCode' = <<0>>
    /\ pc' = "exit"
    /\ UNCHANGED <<dirExists, dir, todo, scanned, skipped, seen, idx,
                   pfile, presult, ppc, resendVars, copilotVars>>

\* the end of main made to fail, writing nothing, when no record is left
WriteOutputUnlessEmpty ==
    /\ pc = "dedup_name"
    /\ idx > Len(tones)
    /\ tones' = SelectSeq(FinalOrder(seen), NotBuiltinName)
    /\ outputFile' = IF seen = <<>> THEN outputFile
                     ELSE <<[version |-> 1, tones |-> AllTones(FinalOrder(seen))]>>
    /\ exitCode' = IF seen = <<>> THEN <<1>> ELSE <<0>>
    /\ pc' = "exit"
    /\ UNCHANGED <<dirExists, dir, todo, scanned, skipped, seen, idx,
                   pfile, presult, ppc, resendVars, copilotVars>>

\* the second pass is done: the values of seen_names are sorted, the built-in
\* presets put before them, the document written, and main returns 0
WriteOutput ==
    /\ pc = "dedup_name"
    /\ idx > Len(tones)
    /\ tones' = SelectSeq(FinalOrder(seen), NotBuiltinName)
    /\ outputFile' = <<[version |-> 1, tones |-> AllTones(FinalOrder(seen))]>>
    /\ exitCode' = <<0>>
    /\ pc' = "exit"
    /\ UNCHANGED <<dirExists, dir, todo, scanned, skipped, seen, idx,
                   pfile, presult, ppc, resendVars, copilotVars>>

MainInit ==
    /\ dirExists \in BOOLEAN
    /\ dir \in (IF dirExists THEN DirsUpTo(MaxFiles) ELSE {<<>>})
    /\ outputFile \in {<<>>, <<OldDocument>>}
    /\ pc = "start"
    /\ todo = <<>>
    /\ scanned = 0
    /\ tones = <<>>
    /\ skipped = 0
    /\ seen = <<>>
    /\ idx = 1
    /\ exitCode = <<>>

Init ==
    /\ MainInit
    /\ pfile = [name |-> <<>>, readable |-> FALSE, content |-> <<>>]
    /\ presult = <<>>
    /\ ppc = "idle"
    /\ ResendIdle
    /\ CopilotIdle

Next ==
    \/ DirMissing
    \/ BeginScan
    \/ ScanTxtAccept
    \/ ScanTxtSkip
    \/ BeginBas
    \/ ScanBasAccept
    \/ ScanBasReject
    \/ ScanBasSkip
    \/ BeginDedupRtttl
    \/ DedupRtttlStep
    \/ BeginDedupName
    \/ DedupNameStep
    \/ WriteOutput

Spec == Init /\ [][Next]_vars

(***************************************************************************)
(* One run of main over a directory whose listing comes in any order.      *)
(***************************************************************************)
\* the orders in which rtttl_dir.glob may return the files of one extension
Listings(ext) ==
    LET S == {name \in DOMAIN dir : Suffix(name) = ext}
        n == Cardinality(S)
    IN  {l \in [1..n -> S] : \A i, j \in 1..n : i # j => l[i] # l[j]}

\* sorted(listing): the path at rank r has r - 1 paths of the listing below it
SortedPaths(listing) ==
    [r \in 1..Len(listing) |->
        listing[CHOOSE i \in 1..Len(listing) :
                    Cardinality({j \in 1..Len(listing) : StrLess(listing[j], listing[i])})
                        = r - 1]]

\* the source directory exists: glob lists the .txt files in some order and
\* the scan of the sorted listing starts
BeginScanListed ==
    /\ pc = "start"
    /\ dirExists
    /\ pc' = "scan_txt"
    /\ \E listing \in Listings(ExtTxt) : todo' = SortedPaths(listing)
    /\ tones' = <<>>
    /\ skipped' = 0
    /\ UNCHANGED <<dirExists, dir, outputFile, scanned, seen, idx, exitCode,
                   pfile, presult, ppc, resendVars, copilotVars>>

\* the .txt files are done: glob lists the .bas files in some order and the
\* scan of the sorted listing starts
BeginBasListed ==
    /\ pc = "scan_txt"
    /\ todo = <<>>
    /\ pc' = "scan_bas"
    /\ \E listing \in Listings(ExtBas) : todo' = SortedPaths(listing)
    /\ UNCHANGED <<dirExists, dir, outputFile, scanned, tones, skipped, seen, idx, exitCode,
                   pfile, presult, ppc, resendVars, copilotVars>>

RunInit ==
    /\ dirExists \in BOOLEAN
    /\ dir \in (IF dirExists THEN DirsUpTo(MaxRunFiles) ELSE {<<>>})
    /\ outputFile \in {<<>>, <<OldDocument>>}
    /\ pc = "start"
    /\ todo = <<>>
    /\ scanned = 0
    /\ tones = <<>>
    /\ skipped = 0
    /\ seen = <<>>
    /\ idx = 1
    /\ exitCode = <<>>
    /\ pfile = [name |-> <<>>, readable |-> FALSE, content |-> <<>>]
    /\ presult = <<>>
    /\ ppc = "idle"
    /\ ResendIdle
    /\ CopilotIdle

RunNext ==
    \/ DirMissing
    \/ BeginScanListed
    \/ ScanTxtAccept
    \/ ScanTxtSkip
    \/ BeginBasListed
    \/ ScanBasAccept
    \/ ScanBasReject
    \/ ScanBasSkip
    \/ BeginDedupRtttl
    \/ DedupRtttlStep
    \/ BeginDedupName
    \/ DedupNameStep
    \/ WriteOutput

\* main runs on: a step that can be taken is taken
RunSpec == RunInit /\ [][RunNext]_vars /\ WF_vars(RunNext)

(***************************************************************************)
(* One call of parse_rtttl_file, on a file drawn from bounded sets.        *)
(***************************************************************************)
\* newline, space, '#', '/', ':', 'a', delete, left single quote, byte-order
\* mark
ContentAlphabet == {NL, SP, HASH, SLASH, COLON, 97, 127, 8216, 65279}

\* space, '-', 'A', non-breaking space
StemAlphabet == {SP, HYPHEN, 65, 160}

\* 'Imperial March.txt' holding 'imperial:d=4,o=5,b=100:c,c,c,8d#,8p'
ExampleFile ==
    [name |-> <<73, 109, 112, 101, 114, 105, 97, 108, 32, 77, 97, 114, 99, 104, 46, 116, 120, 116>>,
     readable |-> TRUE,
     content |-> 
        <<105, 109, 112, 101, 114, 105, 97, 108, 58, 100, 61, 52, 44, 111, 61, 53, 44, 98, 61, 49, 48, 48, 58, 99, 44, 99, 44, 99, 44, 56, 100, 35, 44, 56, 112>>]

\* a file read_text fails on
UnreadableFile == [name |-> UnreadableStem \o ExtTxt, readable |-> FALSE, content |-> <<>>]

\* the files drawn: every content of at most MaxContentLen characters under
\* one stem, every stem of at most MaxStemLen characters over one content,
\* the example file, and a file read_text fails on
DrawnFile(file) ==
    \/ \E k \in 0..MaxContentLen : \E c \in [1..k -> ContentAlphabet] :
           file = [name |-> UnreadableStem \o ExtTxt, readable |-> TRUE, content |-> c]
    \/ \E k \in 1..MaxStemLen : \E st \in [1..k -> StemAlphabet] : \E ext \in {ExtTxt, ExtBas} :
           file = [name |-> st \o ext, readable |-> TRUE,
                   content |-> <<122, 58, 99, 44, 100>>]
    \/ file \in {ExampleFile, UnreadableFile}

\* the call returns a record
ParseReturnsRecord ==
    /\ ppc = "called"
    /\ parse_rtttl_file(pfile) # <<>>
    /\ presult' = parse_rtttl_file(pfile)
    /\ ppc' = "returned"
    /\ UNCHANGED <<pfile, dirExists, dir, outputFile, pc, todo, scanned, tones, skipped,
                   seen, idx, exitCode, resendVars, copilotVars>>

\* the call returns None
ParseReturnsNone ==
    /\ ppc = "called"
    /\ parse_rtttl_file(pfile) = <<>>
    /\ presult' = <<>>
    /\ ppc' = "returned"
    /\ UNCHANGED <<pfile, dirExists, dir, outputFile, pc, todo, scanned, tones, skipped,
                   seen, idx, exitCode, resendVars, copilotVars>>

ParseInit ==
    /\ DrawnFile(pfile)
    /\ presult = <<>>
    /\ ppc = "called"
    /\ ResendIdle
    /\ CopilotIdle
    /\ dirExists = TRUE
    /\ dir = <<>>
    /\ outputFile = <<>>
    /\ pc = "idle"
    /\ todo = <<>>
    /\ scanned = 0
    /\ tones = <<>>
    /\ skipped = 0
    /\ seen = <<>>
    /\ idx = 1
    /\ exitCode = <<>>

ParseNext ==
    \/ ParseReturnsRecord
    \/ ParseReturnsNone

ParseSpec == ParseInit /\ [][ParseNext]_vars

(***************************************************************************)
(* The properties of parse_rtttl_file, checked under ParseSpec.            *)
(***************************************************************************)
\* the call has returned from a file read_text succeeded on
ParsedReadable == ppc = "returned" /\ pfile.readable

\* the lines of the cleaned content of the file of the call
CleanedLines == SplitLines(clean_string(Strip(ReadText(pfile))))

\* a string of whitespace only
IsBlank(line) == \A i \in 1..Len(line) : IsSpace(line[i])

\* a line is a tone definition line: not blank, no comment, with a colon
IsToneLine(line) ==
    /\ ~IsBlank(line)
    /\ ~IsComment(line)
    /\ \E i \in 1..Len(line) : line[i] = COLON

\* C8 as stated: the rtttl of a record is the first tone definition line of
\* the cleaned content, taken as it stands, and a file without such a line
\* yields no record.
C8_RtttlIsFirstToneLineVerbatim ==
    ParsedReadable =>
        LET lines == CleanedLines
            first == {i \in 1..Len(lines) :
                         /\ IsToneLine(lines[i])
                         /\ \A j \in 1..(i - 1) : ~IsToneLine(lines[j])}
        IN  /\ presult # <<>> => \E i \in first : presult[1].rtttl = lines[i]
            /\ first = {} => presult = <<>>

\* C8 amended: every line is taken with its surrounding whitespace trimmed.
\* The rtttl of a record is the first trimmed line of the cleaned content
\* that is not empty, does not start with '//', '#' or an apostrophe, and
\* contains a colon; it is never empty and always contains a colon; a file
\* yields a record exactly if it has such a line.
C8_RtttlIsFirstToneLineTrimmed ==
    ParsedReadable =>
        LET lines == [i \in 1..Len(CleanedLines) |-> Strip(CleanedLines[i])]
            first == {i \in 1..Len(lines) :
                         /\ IsToneLine(lines[i])
                         /\ \A j \in 1..(i - 1) : ~IsToneLine(lines[j])}
        IN  /\ presult # <<>> =>
                /\ \E i \in first : presult[1].rtttl = lines[i]
                /\ presult[1].rtttl # <<>>
                /\ \E k \in 1..Len(presult[1].rtttl) : presult[1].rtttl[k] = COLON
            /\ first = {} <=> presult = <<>>

\* C8 witness: a record whose tone definition line follows a blank line, a
\* comment or a colon-free line, and stood with whitespace around it.
C8_Witness ==
    /\ ParsedReadable
    /\ presult # <<>>
    /\ \E i \in 2..Len(CleanedLines) :
           /\ Strip(CleanedLines[i]) = presult[1].rtttl
           /\ CleanedLines[i] # presult[1].rtttl
           /\ \A j \in 1..(i - 1) : ~IsToneLine(Strip(CleanedLines[j]))

\* the text of s before its first colon (all of s when it has none)
BeforeFirstColon(s) ==
    LET colons == {i \in 1..Len(s) : s[i] = COLON}
    IN  IF colons = {} THEN s
        ELSE SubSeq(s, 1, (CHOOSE i \in colons : \A j \in colons : i <= j) - 1)

\* C9 as stated: toneName is the substring of rtttl before its first colon.
C9_ToneNameIsPrefixVerbatim ==
    (ppc = "returned" /\ presult # <<>>) =>
        presult[1].toneName = BeforeFirstColon(presult[1].rtttl)

\* C9 amended: toneName is the substring of rtttl before its first colon,
\* with its surrounding whitespace trimmed.
C9_ToneNameIsTrimmedPrefix ==
    (ppc = "returned" /\ presult # <<>>) =>
        presult[1].toneName = Strip(BeforeFirstColon(presult[1].rtttl))

\* C9 witness: a record whose rtttl has a second colon and whitespace
\* before the first.
C9_Witness ==
    /\ ppc = "returned"
    /\ presult # <<>>
    /\ Cardinality({i \in 1..Len(presult[1].rtttl) : presult[1].rtttl[i] = COLON}) >= 2
    /\ presult[1].toneName # <<>>
    /\ presult[1].toneName # BeforeFirstColon(presult[1].rtttl)

\* the cleaned file name without extension of the file of the call
CleanedStem == clean_string(Stem(pfile.name))

\* where ' - ' occurs in s
SepOccurrences(s) == {i \in 1..(Len(s) - 2) : SubSeq(s, i, i + 2) = <<SP, HYPHEN, SP>>}

\* the name and content of the example file, and the display name it gives
ExampleName == <<73, 109, 112, 101, 114, 105, 97, 108, 32, 77, 97, 114, 99, 104, 46, 116, 120, 116>>
ExampleDisplayName == <<73, 109, 112, 101, 114, 105, 97, 108, 32, 77, 97, 114, 99, 104>>
ExampleRecordOk ==
    pfile.name = ExampleName =>
        /\ presult # <<>>
        /\ presult[1].displayName = ExampleDisplayName
        /\ presult[1].artist = <<>>
        /\ presult[1].filename = ExampleName

\* C10 as stated: with ' - ' in the cleaned stem, artist is the text before
\* its first occurrence and displayName the text after it; without, the
\* displayName is the cleaned stem and artist is None; filename is the file
\* name with its extension.
C10_SplitVerbatim ==
    (ppc = "returned" /\ presult # <<>>) =>
        LET st == CleanedStem
            occ == SepOccurrences(st)
            first == CHOOSE i \in occ : \A j \in occ : i <= j
        IN  /\ presult[1].filename = pfile.name
            /\ occ # {} => /\ presult[1].artist = <<SubSeq(st, 1, first - 1)>>
                           /\ presult[1].displayName = From(st, first + 3)
            /\ occ = {} => /\ presult[1].artist = <<>>
                           /\ presult[1].displayName = st
            /\ ExampleRecordOk

\* C10 amended: with ' - ' in the cleaned stem, artist is the text before
\* its first occurrence and displayName the text after it, each with its
\* surrounding whitespace trimmed; without, displayName is the cleaned stem
\* as it stands and artist is None; filename is the file name with its
\* extension ('Imperial March.txt' gives 'Imperial March' and no artist).
C10_SplitTrimmed ==
    (ppc = "returned" /\ presult # <<>>) =>
        LET st == CleanedStem
            occ == SepOccurrences(st)
            first == CHOOSE i \in occ : \A j \in occ : i <= j
        IN  /\ presult[1].filename = pfile.name
            /\ occ # {} => /\ presult[1].artist = <<Strip(SubSeq(st, 1, first - 1))>>
                           /\ presult[1].displayName = Strip(From(st, first + 3))
            /\ occ = {} => /\ presult[1].artist = <<>>
                           /\ presult[1].displayName = st
            /\ ExampleRecordOk

\* C10 witness: a record of a stem that holds ' - ' with further whitespace
\* beside it, and that the cleaning changed.
C10_Witness ==
    /\ ppc = "returned"
    /\ presult # <<>>
    /\ SepOccurrences(CleanedStem) # {}
    /\ CleanedStem # Stem(pfile.name)
    /\ presult[1].displayName # <<>>
    /\ Len(presult[1].artist[1]) + Len(presult[1].displayName) + 3 < Len(CleanedStem)

(***************************************************************************)
(* The properties of main, checked under Spec.                             *)
(***************************************************************************)
\* main has written the document and returned 0
Written == pc = "exit" /\ exitCode = <<0>>

\* the tones sequence of the written document
OutTones == outputFile[1].tones

\* the number of built-in presets
NumBuiltin == Len(BUILTIN_PRESETS)

\* the positions of the discovered records in OutTones
DiscoveredAt == {i \in 1..Len(OutTones) : ~OutTones[i].builtin}

\* C1: no two entries of the written tones sequence, built-in or discovered,
\* have the same rtttl string.
C1_NoTwoEntriesShareRtttl ==
    Written =>
        \A i, j \in 1..Len(OutTones) : i # j => OutTones[i].rtttl # OutTones[j].rtttl

\* C2: no two entries of the written tones sequence, built-in or discovered,
\* have the same normalized display name.
C2_NoTwoEntriesShareNormalizedName ==
    Written =>
        \A i, j \in 1..Len(OutTones) :
            i # j => normalize_name(OutTones[i].displayName)
                         # normalize_name(OutTones[j].displayName)

\* C3: the written tones sequence starts with exactly the 11 built-in
\* presets, unmodified and in declaration order, and every discovered record
\* comes after all of them.
C3_BuiltinsFirst ==
    Written =>
        /\ NumBuiltin = 11
        /\ Len(OutTones) >= 11
        /\ \A i \in 1..11 : OutTones[i] = BUILTIN_PRESETS[i] /\ OutTones[i].builtin
        /\ \A i \in DiscoveredAt : i > 11
        /\ \A i \in 12..Len(OutTones) : i \in DiscoveredAt

\* C3 witness: a document written with discovered records in it, from a
\* directory that held a file named as a built-in preset.
C3_Witness ==
    /\ Written
    /\ Len(OutTones) >= 13
    /\ \E i \in 1..Len(seen) : Lower(seen[i].displayName) \in builtin_names

\* C4: the discovered records of the written tones sequence are in
\* non-decreasing order of their lowercased displayName.
C4_DiscoveredSorted ==
    Written =>
        \A i, j \in DiscoveredAt :
            i < j => ~StrLess(Lower(OutTones[j].displayName), Lower(OutTones[i].displayName))

\* C4 witness: discovered records written in another order than the second
\* pass had left them in.
C4_Witness ==
    /\ Written
    /\ Cardinality(DiscoveredAt) >= 2
    /\ \E a, b \in 1..Len(seen) : \E i, j \in DiscoveredAt :
          a < b /\ j < i /\ seen[a] = OutTones[i] /\ seen[b] = OutTones[j]

\* the first pass has visited every tone: tones is the sorted list of the
\* accepted records and seen the values of seen_rtttl
FirstPassDone == pc = "dedup_rtttl" /\ idx > Len(tones)

\* a display name ends in a version suffix: an optional v or V, then digits
EndsInVersion(name) == name # <<>> /\ name[Len(name)] \in 48..57

\* the records of s with the rtttl r
SameRtttl(s, r) == {i \in 1..Len(s) : s[i].rtttl = r}

\* 'Mario V2' and 'Mario' with one rtttl: in either order of arrival the
\* first pass leaves 'Mario'
MarioName == <<77, 97, 114, 105, 111>>
MarioV2Name == <<77, 97, 114, 105, 111, 32, 86, 50>>
MarioExample ==
    /\ RtttlReplaces([displayName |-> MarioV2Name], [displayName |-> MarioName])
    /\ ~RtttlReplaces([displayName |-> MarioName], [displayName |-> MarioV2Name])

\* C5: of every group of accepted records with one rtttl string the first
\* pass keeps exactly one record; it has no version suffix if a record of
\* the group has none, and no record of the group with its suffix status
\* has a shorter display name.
C5_ContentDedupKeepsBest ==
    FirstPassDone =>
        /\ \A k \in 1..Len(tones) :
              LET group == SameRtttl(tones, tones[k].rtttl)
                  kept == SameRtttl(seen, tones[k].rtttl)
              IN  /\ Cardinality(kept) = 1
                  /\ \A a \in kept :
                        /\ \E m \in group : tones[m] = seen[a]
                        /\ (\E m \in group : ~EndsInVersion(tones[m].displayName))
                               => ~EndsInVersion(seen[a].displayName)
                        /\ \A m \in group :
                               EndsInVersion(tones[m].displayName)
                                   = EndsInVersion(seen[a].displayName)
                               => Len(seen[a].displayName) <= Len(tones[m].displayName)
        /\ \A a \in 1..Len(seen) : SameRtttl(tones, seen[a].rtttl) # {}
        /\ MarioExample

\* C5 witness: a group of three records with one rtttl, with and without a
\* version suffix, of which the record kept is not the first visited.
C5_Witness ==
    /\ FirstPassDone
    /\ \E k \in 1..Len(tones) :
          LET group == SameRtttl(tones, tones[k].rtttl)
          IN  /\ Cardinality(group) >= 3
              /\ \E m \in group : EndsInVersion(tones[m].displayName)
              /\ \E m \in group : ~EndsInVersion(tones[m].displayName)
              /\ \E a \in 1..Len(seen) :
                    /\ seen[a].rtttl = tones[k].rtttl
                    /\ \E m \in group : m < k /\ tones[k] = seen[a] /\ tones[m] # seen[a]

\* the second pass has visited every tone: tones is the list the first pass
\* left and seen the values of seen_names
SecondPassDone == pc = "dedup_name" /\ idx > Len(tones)

\* the records of s with the normalized display name n
SameName(s, n) == {i \in 1..Len(s) : normalize_name(s[i].displayName) = n}

\* a display name holds a space
HasSpace(name) == \E i \in 1..Len(name) : name[i] = SP

\* C6: of every group of records the first pass left with one normalized
\* display name the second pass keeps exactly one record; its rtttl is of
\* the least length of the group, and its display name holds a space if that
\* of a record of the group with an rtttl of the least length does.
C6_NameDedupKeepsShortest ==
    SecondPassDone =>
        /\ \A k \in 1..Len(tones) :
              LET n == normalize_name(tones[k].displayName)
                  group == SameName(tones, n)
                  kept == SameName(seen, n)
              IN  /\ Cardinality(kept) = 1
                  /\ \A a \in kept :
                        /\ \E m \in group : tones[m] = seen[a]
                        /\ \A m \in group : Len(seen[a].rtttl) <= Len(tones[m].rtttl)
                        /\ (\E m \in group :
                               /\ Len(tones[m].rtttl) = Len(seen[a].rtttl)
                               /\ HasSpace(tones[m].displayName))
                               => HasSpace(seen[a].displayName)
        /\ \A a \in 1..Len(seen) : SameName(tones, normalize_name(seen[a].displayName)) # {}

\* C6 witness: a group of two records with one normalized name and rtttl of
\* one length, of which the second visited is kept for its space; and another
\* such group of which the record kept has the shorter rtttl.
C6_Witness ==
    /\ SecondPassDone
    /\ \E k, m \in 1..Len(tones) :
          /\ m < k
          /\ normalize_name(tones[m].displayName) = normalize_name(tones[k].displayName)
          /\ Len(tones[m].rtttl) = Len(tones[k].rtttl)
          /\ HasSpace(tones[k].displayName)
          /\ \E a \in 1..Len(seen) : seen[a] = tones[k]
    /\ \E k, m \in 1..Len(tones) :
          /\ m < k
          /\ normalize_name(tones[m].displayName) = normalize_name(tones[k].displayName)
          /\ Len(tones[k].rtttl) < Len(tones[m].rtttl)
          /\ \E a \in 1..Len(seen) : seen[a] = tones[k]

\* C7: no discovered record of the written tones sequence has a displayName
\* that equals, ignoring case, that of a built-in preset; the preset is kept.
C7_NoDiscoveredNamedAsBuiltin ==
    Written =>
        /\ \A i \in DiscoveredAt : \A b \in 1..NumBuiltin :
              Lower(OutTones[i].displayName) # Lower(BUILTIN_PRESETS[b].displayName)
        /\ \A b \in 1..NumBuiltin : \E i \in 1..Len(OutTones) : OutTones[i] = BUILTIN_PRESETS[b]

\* C7 witness: the second pass left a record named 'ping', which differs
\* from the built-in 'Ping' in case only, and the document is written.
C7_Witness ==
    /\ Written
    /\ \E a \in 1..Len(seen) : \E b \in 1..NumBuiltin :
          /\ seen[a].displayName # BUILTIN_PRESETS[b].displayName
          /\ Lower(seen[a].displayName) = Lower(BUILTIN_PRESETS[b].displayName)
    /\ DiscoveredAt # {}

(***************************************************************************)
(* The scan of main, checked under Spec.                                   *)
(***************************************************************************)
\* both scan loops are done and the first pass has not started
ScanDone == pc = "dedup_rtttl" /\ idx = 1

\* the lines of the cleaned content of a file, each trimmed
TrimmedLinesOf(file) ==
    LET lines == SplitLines(clean_string(Strip(ReadText(file))))
    IN  [i \in 1..Len(lines) |-> Strip(lines[i])]

\* record extraction succeeds on the file: it is read and has a tone
\* definition line
Extracts(file) ==
    /\ file.readable
    /\ \E i \in 1..Len(TrimmedLinesOf(file)) : IsToneLine(TrimmedLinesOf(file)[i])

\* the tone definition line of a file on which extraction succeeds
ToneLineOf(file) ==
    LET lines == TrimmedLinesOf(file)
        first == CHOOSE i \in 1..Len(lines) :
                     /\ IsToneLine(lines[i])
                     /\ \A j \in 1..(i - 1) : ~IsToneLine(lines[j])
    IN  lines[first]

\* a to g or p, in either case
IsNoteLetter(c) == c \in (97..103) \cup {112} \cup (65..71) \cup {80}

\* a string with a note-or-pause letter and with a comma
HasNoteAndComma(s) ==
    /\ \E i \in 1..Len(s) : IsNoteLetter(s[i])
    /\ \E i \in 1..Len(s) : s[i] = COMMA

\* what the properties of the scan say of a file, for each file a directory
\* may hold: whether it is read, whether its content is empty once trimmed,
\* whether extraction succeeds, and whether a note letter and a comma stand
\* in the file and on its tone definition line
FileFacts ==
    [name \in DirNames, data \in FileData |->
        LET file == FileOf(name, data)
        IN  [readable |-> file.readable,
             empty |-> file.readable /\ Strip(ReadText(file)) = <<>>,
             extracts |-> Extracts(file),
             noteAndCommaInFile |-> file.readable /\ HasNoteAndComma(ReadText(file)),
             noteAndCommaOnToneLine |->
                 Extracts(file) /\ HasNoteAndComma(ToneLineOf(file))]]

\* the same of a file of the directory
Facts(name) == FileFacts[name, dir[name]]

\* the file of this name contributed a record to the list tones
Accepted(name) == \E i \in 1..Len(tones) : tones[i].filename = name

\* the file of this name has an entry in the written document
InOutput(name) == \E i \in 1..Len(OutTones) : OutTones[i].filename = name

\* C11 as stated: a .txt file is accepted exactly if record extraction
\* succeeds; a .bas file exactly if extraction succeeds and the file holds a
\* note-or-pause letter and a comma; a rejected .bas file is not in the output.
C11_AcceptanceByFileContent ==
    /\ ScanDone =>
           \A name \in DOMAIN dir :
               /\ Suffix(name) = ExtTxt => (Accepted(name) <=> Facts(name).extracts)
               /\ Suffix(name) = ExtBas =>
                      (Accepted(name) <=>
                           /\ Facts(name).extracts
                           /\ Facts(name).noteAndCommaInFile)
    /\ Written =>
           \A name \in DOMAIN dir :
               (Suffix(name) = ExtBas
                    /\ ~(Facts(name).extracts /\ Facts(name).noteAndCommaInFile))
               => ~InOutput(name)

\* C11 amended: the letter and the comma are looked for on the tone
\* definition line of the .bas file, the rtttl of its record, not in the file.
C11_AcceptanceByToneLine ==
    /\ ScanDone =>
           \A name \in DOMAIN dir :
               /\ Suffix(name) = ExtTxt => (Accepted(name) <=> Facts(name).extracts)
               /\ Suffix(name) = ExtBas =>
                      (Accepted(name) <=>
                           /\ Facts(name).extracts
                           /\ Facts(name).noteAndCommaOnToneLine)
    /\ Written =>
           \A name \in DOMAIN dir :
               (Suffix(name) = ExtBas
                    /\ ~(Facts(name).extracts /\ Facts(name).noteAndCommaOnToneLine))
               => ~InOutput(name)

\* C11 witness: the scan is done over a .bas file that was accepted, a .bas
\* file rejected though it holds a letter and a comma off its tone line, and
\* a .txt file accepted without letter and comma on its tone line.
C11_Witness ==
    /\ ScanDone
    /\ \E a, b, c \in DOMAIN dir :
           /\ Suffix(a) = ExtBas /\ Accepted(a)
           /\ Suffix(b) = ExtBas /\ ~Accepted(b)
           /\ Facts(b).extracts /\ Facts(b).noteAndCommaInFile
           /\ Suffix(c) = ExtTxt /\ Accepted(c)
           /\ ~Facts(c).noteAndCommaOnToneLine

\* a scan loop is running, or both are done
Scanning == pc \in {"scan_txt", "scan_bas"} \/ ScanDone

\* the file contributes no record: it is unreadable, or empty, or without a
\* tone definition line, or a .bas file rejected by the note and comma check
NoRecord(name) ==
    \/ ~Facts(name).readable
    \/ Facts(name).empty
    \/ ~Facts(name).extracts
    \/ Suffix(name) = ExtBas /\ ~Facts(name).noteAndCommaOnToneLine

\* C12: while the scan runs and when it is done, the accepted records plus
\* skipped equal the number of files scanned; when it is done every .txt and
\* .bas file was scanned and skipped is the number of files that contributed
\* no record, each counted once.
C12_SkipAccounting ==
    /\ Scanning => Len(tones) + skipped = scanned
    /\ ScanDone =>
           /\ scanned = Cardinality(DOMAIN dir)
           /\ skipped = Cardinality({name \in DOMAIN dir : NoRecord(name)})
           /\ \A name \in DOMAIN dir : NoRecord(name) <=> ~Accepted(name)

\* C12 witness: the scan is done over an accepted file, a .bas file rejected
\* by the note and comma check, and a file that gave no record at all.
C12_Witness ==
    /\ ScanDone
    /\ Len(tones) >= 1
    /\ skipped = 2
    /\ \E a, b \in DOMAIN dir :
           /\ Suffix(a) = ExtBas /\ Facts(a).extracts /\ ~Accepted(a)
           /\ ~Facts(b).extracts

(***************************************************************************)
(* The end of main, checked under RunSpec.                                 *)
(***************************************************************************)
\* the document main writes: version 1, and tones that start with the
\* built-in presets
FreshDocument ==
    /\ outputFile # <<>>
    /\ outputFile[1].version = 1
    /\ Len(OutTones) >= NumBuiltin
    /\ SubSeq(OutTones, 1, NumBuiltin) = BUILTIN_PRESETS

\* C13: whenever the source directory exists the run ends, with exit code 0
\* and the output document written, whatever files are skipped.
C13_ExistingDirEndsWithZero ==
    /\ [](dirExists /\ pc = "exit" => exitCode = <<0>> /\ FreshDocument)
    /\ (dirExists ~> (pc = "exit" /\ exitCode = <<0>> /\ FreshDocument))

\* C13 witness: the run has ended with exit code 0 over a directory of
\* several files, every one of them skipped, one of them unreadable.
C13_Witness ==
    /\ Written
    /\ FreshDocument
    /\ Cardinality(DOMAIN dir) >= 2
    /\ skipped = Cardinality(DOMAIN dir)
    /\ \E name \in DOMAIN dir : ~dir[name].readable

\* C14: if the source directory does not exist the run ends with exit code 1;
\* no file is scanned and no step of the run writes or changes the output
\* file.
C14_MissingDirEndsWithOne ==
    /\ [](~dirExists =>
             /\ pc = "exit" => exitCode = <<1>>
             /\ scanned = 0
             /\ tones = <<>>)
    /\ [][~dirExists => outputFile' = outputFile]_vars
    /\ (~dirExists ~> (pc = "exit" /\ exitCode = <<1>>))

\* C14 witness: the run has ended with exit code 1 and the document of an
\* earlier run is still the output file.
C14_Witness ==
    /\ ~dirExists
    /\ pc = "exit"
    /\ exitCode = <<1>>
    /\ outputFile = <<OldDocument>>

(***************************************************************************)
(* The phases of main after the scan, as functions of the list collected.  *)
(***************************************************************************)
\* seen_rtttl after one more tone of the first pass
RtttlInsert(s, tone) ==
    LET at == IndexOfKey([i \in 1..Len(s) |-> RtttlKey(s[i])], RtttlKey(tone), 1)
    IN  IF at = 0 THEN Append(s, tone)
        ELSE IF RtttlReplaces(s[at], tone) THEN [s EXCEPT ![at] = tone]
        ELSE s

\* list(seen_rtttl.values()) after the first pass over the first k tones
RECURSIVE RtttlPass(_, _)
RtttlPass(ts, k) == IF k = 0 THEN <<>> ELSE RtttlInsert(RtttlPass(ts, k - 1), ts[k])

\* seen_names after one more tone of the second pass
NameInsert(s, tone) ==
    LET at == IndexOfKey([i \in 1..Len(s) |-> NameKey(s[i])], NameKey(tone), 1)
    IN  IF at = 0 THEN Append(s, tone)
        ELSE IF NameReplaces(s[at], tone) THEN [s EXCEPT ![at] = tone]
        ELSE s

\* list(seen_names.values()) after the second pass over the first k tones
RECURSIVE NamePass(_, _)
NamePass(ts, k) == IF k = 0 THEN <<>> ELSE NameInsert(NamePass(ts, k - 1), ts[k])

\* all_tones, from the list the scan collected
TonesFrom(collected) ==
    LET sorted == SortTones(collected)
        first == RtttlPass(sorted, Len(sorted))
        second == NamePass(first, Len(first))
    IN  AllTones(FinalOrder(second))

\* whether main keeps the record of a file of the directory
Keeps(name) ==
    /\ Parsed(name) # <<>>
    /\ Suffix(name) = ExtBas => LooksLikeRtttl(Parsed(name)[1].rtttl)

\* the list the scan of main collects: the records of the .txt files by
\* name, then those of the .bas files by name
Collected ==
    LET names == SelectSeq(Glob(ExtTxt) \o Glob(ExtBas), Keeps)
    IN  [i \in 1..Len(names) |-> Parsed(names[i])[1]]

(***************************************************************************)
(* The phases after the scan, run over the collected list in any order.    *)
(***************************************************************************)
\* the orders of a list
Orders(s) ==
    {[i \in 1..Len(s) |-> s[p[i]]] :
        p \in {q \in [1..Len(s) -> 1..Len(s)] :
                  \A i, j \in 1..Len(s) : i # j => q[i] # q[j]}}

\* the scan is done and has collected the records of the directory, in some
\* order
PermInit ==
    /\ dirExists = TRUE
    /\ dir \in DirsUpTo(MaxPermFiles)
    /\ outputFile = <<>>
    /\ pc = "scan_bas"
    /\ todo = <<>>
    /\ scanned = Cardinality(DOMAIN dir)
    /\ tones \in Orders(Collected)
    /\ skipped = Cardinality(DOMAIN dir) - Len(tones)
    /\ seen = <<>>
    /\ idx = 1
    /\ exitCode = <<>>
    /\ pfile = [name |-> <<>>, readable |-> FALSE, content |-> <<>>]
    /\ presult = <<>>
    /\ ppc = "idle"
    /\ ResendIdle
    /\ CopilotIdle

PermNext ==
    \/ BeginDedupRtttl
    \/ DedupRtttlStep
    \/ BeginDedupName
    \/ DedupNameStep
    \/ WriteOutput

PermSpec == PermInit /\ [][PermNext]_vars

\* C15: the final tones sequence depends only on the set of collected
\* records: run over any order of the collected list, the dedup, sort and
\* merge phases write the sequence they write over the list in scan order.
C15_OrderOfCollectedListIrrelevant ==
    Written => OutTones = TonesFrom(Collected)

(***************************************************************************)
(* The output of a run as a function of the directory, under RunSpec.      *)
(***************************************************************************)
\* C16: the written output is a function of the files of the source
\* directory only: whatever the output file held before the run and in
\* whatever order the directory was listed, the run writes version 1 and the
\* tones that the phases give from the records of the directory.
C16_OutputIsFunctionOfDirectory ==
    Written => outputFile = <<[version |-> 1, tones |-> TonesFrom(Collected)]>>

\* C16 witness: a run has written its document over a directory of two files
\* of one extension, listed in either order, with a discovered record in it.
C16_Witness ==
    /\ Written
    /\ DiscoveredAt # {}
    /\ \E a, b \in DOMAIN dir : a # b /\ Suffix(a) = Suffix(b)

(***************************************************************************)
(* The text normalization, checked under ParseSpec.                        *)
(***************************************************************************)
\* the characters of the replacement table
TableChars == {CHAR_REPLACEMENTS[k][1] : k \in 1..Len(CHAR_REPLACEMENTS)}

\* a string without a character of the table and without a non-printable
\* character other than newline, carriage return and tab
IsClean(s) ==
    \A i \in 1..Len(s) :
        /\ s[i] \notin TableChars
        /\ IsPrintable(s[i]) \/ s[i] \in {NL, CR, TAB}

Reports == 1..MaxReports

\* args.id when --id is not given
NoId == 0

\* an id under which the collection holds no report
MissingId == MaxReports + 1

\* data.get("emailSent"): True, False, no such field, or any other value
EmailSentValues == {"True", "False", "absent", "other"}

\* a report: whether its createdAt is after the cutoff, its field emailSent,
\* and its field emailError, <<>> when it has none
ReportData ==
    {d \in [inWindow : BOOLEAN, emailSent : EmailSentValues, emailError : {<<>>}] :
        ~d.inWindow => d.emailSent = "False"}

\* args.retries when --retries is not given
DefaultRetries == 2

\* the command lines drawn: --limit is given together with --send and --yes,
\* and so is --retries, without --limit
CommandLines ==
    {a \in [send : BOOLEAN, yes : BOOLEAN, id : {NoId, 1, MissingId}, limit : 0..MaxLimit,
            retries : 0..MaxRetries] :
        /\ a.limit > 0 => a.send /\ a.yes /\ a.id = NoId
        /\ a.retries # DefaultRetries => a.send /\ a.yes /\ a.id = NoId /\ a.limit = 0}

\* the environments drawn: whether CI is "true" and whether
\* IMPROVMX_SMTP_STARTTLS is "true"; both are varied under --send only, and
\* CI without --yes
Environments(a) ==
    {e \in [ci : BOOLEAN, starttls : BOOLEAN] :
        /\ ~a.send => ~e.ci /\ e.starttls
        /\ e.ci => ~a.yes}

\* 'YES'
YES == <<89, 69, 83>>

\* what may be typed at the prompt: 'YES', ' YES ', 'yes', 'Y', nothing
Answers == {YES, <<SP>> \o YES \o <<SP>>, <<121, 101, 115>>, <<89>>, <<>>}

\* sys.exit(code), or the end of the script, after a last printed line
Exit(code, line) ==
    /\ rpc' = "exit"
    /\ status' = <<code>>
    /\ message' = line

\* the script stops at its start: no From address is configured
NoFromAddress ==
    /\ rpc = "start"
    /\ Exit(1, "no From address")
    /\ UNCHANGED <<args, environ, db, unsent, ans, cursor, sent, last_error, smtpLog,
                   mainVars, parseVars, copilotVars>>

\* the script stops at its start: firestore.Client() raises
FirestoreClientFails ==
    /\ rpc = "start"
    /\ Exit(1, "no Firestore client")
    /\ UNCHANGED <<args, environ, db, unsent, ans, cursor, sent, last_error, smtpLog,
                   mainVars, parseVars, copilotVars>>

\* the read of the report of --id, or the stream of the query, raises:
\* nothing catches it and the script ends with a traceback
ReadRaises ==
    /\ rpc = "start"
    /\ Exit(1, "traceback")
    /\ UNCHANGED <<args, environ, db, unsent, ans, cursor, sent, last_error, smtpLog,
                   mainVars, parseVars, copilotVars>>

\* --id names no report
IdNotFound ==
    /\ rpc = "start"
    /\ args.id # NoId
    /\ args.id \notin Reports
    /\ Exit(1, "not found")
    /\ UNCHANGED <<args, environ, db, unsent, ans, cursor, sent, last_error, smtpLog,
                   mainVars, parseVars, copilotVars>>

\* --id names a report whose emailSent is True
IdAlreadyEmailed ==
    /\ rpc = "start"
    /\ args.id \in Reports
    /\ db[args.id].emailSent = "True"
    /\ Exit(0, "already emailed")
    /\ UNCHANGED <<args, environ, db, unsent, ans, cursor, sent, last_error, smtpLog,
                   mainVars, parseVars, copilotVars>>

\* --id names a report whose emailSent is not True: it is selected and listed
IdSelected ==
    /\ rpc = "start"
    /\ args.id \in Reports
    /\ db[args.id].emailSent # "True"
    /\ unsent' = <<args.id>>
    /\ rpc' = "listed"
    /\ message' = "found"
    /\ UNCHANGED <<args, environ, db, ans, cursor, sent, last_error, smtpLog, status,
                   mainVars, parseVars, copilotVars>>

\* the reports of the window whose emailSent is False
QueryUnsentFalseOnly ==
    SelectSeq([r \in Reports |-> r],
              LAMBDA r : db[r].inWindow /\ db[r].emailSent = "False")

\* the reports the query streams, in ascending order of createdAt, without
\* those whose emailSent is True
QueryUnsent ==
    SelectSeq([r \in Reports |-> r],
              LAMBDA r : db[r].inWindow /\ db[r].emailSent # "True")

\* no --id, and the window holds no unsent report
NoneUnsent ==
    /\ rpc = "start"
    /\ args.id = NoId
    /\ QueryUnsent = <<>>
    /\ Exit(0, "none unsent")
    /\ UNCHANGED <<args, environ, db, unsent, ans, cursor, sent, last_error, smtpLog,
                   mainVars, parseVars, copilotVars>>

\* no --id: the unsent reports of the window are selected and listed
ListUnsent ==
    /\ rpc = "start"
    /\ args.id = NoId
    /\ QueryUnsent # <<>>
    /\ unsent' = QueryUnsent
    /\ rpc' = "listed"
    /\ message' = "found"
    /\ UNCHANGED <<args, environ, db, ans, cursor, sent, last_error, smtpLog, status,
                   mainVars, parseVars, copilotVars>>

\* the listing without the test of args.send: the script goes on to the loop
DryRunFallsThrough ==
    /\ rpc = "listed"
    /\ ~args.send
    /\ rpc' = "loop"
    /\ UNCHANGED <<args, environ, db, unsent, ans, cursor, sent, last_error, smtpLog,
                   status, message, mainVars, parseVars, copilotVars>>

\* without --send the script stops after the listing
DryRunExit ==
    /\ rpc = "listed"
    /\ ~args.send
    /\ Exit(0, "dry-run complete")
    /\ UNCHANGED <<args, environ, db, unsent, ans, cursor, sent, last_error, smtpLog,
                   mainVars, parseVars, copilotVars>>

\* --send with --yes or CI=true: confirmed without a prompt
ConfirmByFlag ==
    /\ rpc = "listed"
    /\ args.send
    /\ args.yes \/ environ.ci
    /\ rpc' = "loop"
    /\ UNCHANGED <<args, environ, db, unsent, ans, cursor, sent, last_error, smtpLog,
                   status, message, mainVars, parseVars, copilotVars>>

\* a test that takes anything typed but the empty line
ConfirmsUnlessEmpty(text) == Strip(text) # <<>>

\* the test of what was typed
Confirms(text) == Strip(text) = YES

\* --send without --yes and CI: the prompt, answered so that it confirms
PromptConfirmed ==
    /\ rpc = "listed"
    /\ args.send
    /\ ~(args.yes \/ environ.ci)
    /\ \E text \in Answers :
           /\ Confirms(text)
           /\ ans' = <<text>>
    /\ rpc' = "loop"
    /\ UNCHANGED <<args, environ, db, unsent, cursor, sent, last_error, smtpLog,
                   status, message, mainVars, parseVars, copilotVars>>

\* the prompt, answered otherwise: the script stops
PromptAborted ==
    /\ rpc = "listed"
    /\ args.send
    /\ ~(args.yes \/ environ.ci)
    /\ \E text \in Answers :
           /\ ~Confirms(text)
           /\ ans' = <<text>>
    /\ Exit(0, "aborted")
    /\ UNCHANGED <<args, environ, db, unsent, cursor, sent, last_error, smtpLog,
                   mainVars, parseVars, copilotVars>>

\* the prompt finds no input to read: input() raises EOFError, nothing
\* catches it and the script ends with a traceback
PromptRaises ==
    /\ rpc = "listed"
    /\ args.send
    /\ ~(args.yes \/ environ.ci)
    /\ Exit(1, "traceback")
    /\ UNCHANGED <<args, environ, db, unsent, ans, cursor, sent, last_error, smtpLog,
                   mainVars, parseVars, copilotVars>>

\* the report of the running iteration of the send loop
Current == unsent[cursor]

\* one SMTP session opened for a report: whether send_message returned in
\* it, which hands the message to the server, and whether it ended with an
\* exception
Session(method, delivered, raised) ==
    [report |-> Current, method |-> method, delivered |-> delivered, raised |-> raised]

\* an iteration starts with STARTTLS enabled: the session delivers the message
StartTlsDelivers ==
    /\ rpc = "loop"
    /\ cursor <= Len(unsent)
    /\ environ.starttls
    /\ smtpLog' = Append(smtpLog, Session("starttls", TRUE, FALSE))
    /\ sent' = TRUE
    /\ last_error' = <<>>
    /\ rpc' = "record"
    /\ UNCHANGED <<args, environ, db, unsent, ans, cursor, status, message,
                   mainVars, parseVars, copilotVars>>

\* an iteration starts with STARTTLS enabled: the session raises
StartTlsFails ==
    /\ rpc = "loop"
    /\ cursor <= Len(unsent)
    /\ environ.starttls
    /\ smtpLog' = Append(smtpLog, Session("starttls", FALSE, TRUE))
    /\ sent' = FALSE
    /\ last_error' = <<"starttls">>
    /\ rpc' = "fallback"
    /\ UNCHANGED <<args, environ, db, unsent, ans, cursor, status, message,
                   mainVars, parseVars, copilotVars>>

\* an iteration starts with STARTTLS enabled: send_message returns and the
\* end of the with block raises (QUIT is not answered with 221), so that
\* sent = True is not reached
StartTlsQuitFails ==
    /\ rpc = "loop"
    /\ cursor <= Len(unsent)
    /\ environ.starttls
    /\ smtpLog' = Append(smtpLog, Session("starttls", TRUE, TRUE))
    /\ sent' = FALSE
    /\ last_error' = <<"starttls">>
    /\ rpc' = "fallback"
    /\ UNCHANGED <<args, environ, db, unsent, ans, cursor, status, message,
                   mainVars, parseVars, copilotVars>>

\* the SMTPS session is due: STARTTLS failed, or an iteration starts with
\* STARTTLS disabled
FallbackDue ==
    \/ rpc = "fallback"
    \/ rpc = "loop" /\ cursor <= Len(unsent) /\ ~environ.starttls

\* the SMTPS session on port 465 delivers the message
SmtpsDelivers ==
    /\ FallbackDue
    /\ smtpLog' = Append(smtpLog, Session("smtps", TRUE, FALSE))
    /\ sent' = TRUE
    /\ last_error' = IF rpc = "fallback" THEN last_error ELSE <<>>
    /\ rpc' = "record"
    /\ UNCHANGED <<args, environ, db, unsent, ans, cursor, status, message,
                   mainVars, parseVars, copilotVars>>

\* the SMTPS session raises
SmtpsFails ==
    /\ FallbackDue
    /\ smtpLog' = Append(smtpLog, Session("smtps", FALSE, TRUE))
    /\ sent' = FALSE
    /\ last_error' = <<"smtps">>
    /\ rpc' = "record"
    /\ UNCHANGED <<args, environ, db, unsent, ans, cursor, status, message,
                   mainVars, parseVars, copilotVars>>

\* in the SMTPS session send_message returns and the end of the with block
\* raises
SmtpsQuitFails ==
    /\ FallbackDue
    /\ smtpLog' = Append(smtpLog, Session("smtps", TRUE, TRUE))
    /\ sent' = FALSE
    /\ last_error' = <<"smtps">>
    /\ rpc' = "record"
    /\ UNCHANGED <<args, environ, db, unsent, ans, cursor, status, message,
                   mainVars, parseVars, copilotVars>>

\* a session ended without an exception and the update of the report succeeds
MarkSent ==
    /\ rpc = "record"
    /\ sent
    /\ db' = [db EXCEPT ![Current] = [@ EXCEPT !.emailSent = "True", !.emailError = <<>>]]
    /\ cursor' = cursor + 1
    /\ rpc' = "loop"
    /\ UNCHANGED <<args, environ, unsent, ans, sent, last_error, smtpLog, status, message,
                   mainVars, parseVars, copilotVars>>

\* the message was delivered and the update of the report raises: the
\* handler of the iteration takes over
\* (last_error stands for the exception the handler receives)
MarkSentRaises ==
    /\ rpc = "record"
    /\ sent
    /\ last_error' = <<"update">>
    /\ rpc' = "handler"
    /\ UNCHANGED <<args, environ, db, unsent, ans, cursor, sent, smtpLog, status, message,
                   mainVars, parseVars, copilotVars>>

\* the handler of the iteration runs: no session delivered the message, or
\* the update after the delivery raised
HandlerDue ==
    \/ rpc = "record" /\ ~sent
    \/ rpc = "handler"

\* a handler that records the failure and leaves the loop
MarkFailedAndBreak ==
    /\ HandlerDue
    /\ db' = [db EXCEPT ![Current] =
                  [@ EXCEPT !.emailSent = "False", !.emailError = last_error]]
    /\ cursor' = Len(unsent) + 1
    /\ rpc' = "loop"
    /\ UNCHANGED <<args, environ, unsent, ans, sent, last_error, smtpLog, status, message,
                   mainVars, parseVars, copilotVars>>

\* the handler records the failure on the report
MarkFailed ==
    /\ HandlerDue
    /\ db' = [db EXCEPT ![Current] =
                  [@ EXCEPT !.emailSent = "False", !.emailError = last_error]]
    /\ cursor' = cursor + 1
    /\ rpc' = "loop"
    /\ UNCHANGED <<args, environ, unsent, ans, sent, last_error, smtpLog, status, message,
                   mainVars, parseVars, copilotVars>>

\* the update of the handler raises: nothing catches it and the script ends
\* with a traceback
MarkFailedRaises ==
    /\ HandlerDue
    /\ Exit(1, "traceback")
    /\ UNCHANGED <<args, environ, db, unsent, ans, cursor, sent, last_error, smtpLog,
                   mainVars, parseVars, copilotVars>>

\* the loop is over
Done ==
    /\ rpc = "loop"
    /\ cursor > Len(unsent)
    /\ Exit(0, "done")
    /\ UNCHANGED <<args, environ, db, unsent, ans, cursor, sent, last_error, smtpLog,
                   mainVars, parseVars, copilotVars>>

\* the script starts: a command line, an environment and a collection
ResendInit ==
    /\ args \in CommandLines
    /\ environ \in Environments(args)
    /\ db \in [Reports -> ReportData]
    /\ unsent = <<>>
    /\ ans = <<>>
    /\ rpc = "start"
    /\ cursor = 1
    /\ sent = FALSE
    /\ last_error = <<>>
    /\ smtpLog = <<>>
    /\ status = <<>>
    /\ message = ""
    /\ dirExists = TRUE
    /\ dir = <<>>
    /\ outputFile = <<>>
    /\ pc = "idle"
    /\ todo = <<>>
    /\ scanned = 0
    /\ tones = <<>>
    /\ skipped = 0
    /\ seen = <<>>
    /\ idx = 1
    /\ exitCode = <<>>
    /\ pfile = [name |-> <<>>, readable |-> FALSE, content |-> <<>>]
    /\ presult = <<>>
    /\ ppc = "idle"
    /\ CopilotIdle

ResendNext ==
    \/ NoFromAddress
    \/ FirestoreClientFails
    \/ ReadRaises
    \/ IdNotFound
    \/ IdAlreadyEmailed
    \/ IdSelected
    \/ NoneUnsent
    \/ ListUnsent
    \/ DryRunExit
    \/ ConfirmByFlag
    \/ PromptConfirmed
    \/ PromptAborted
    \/ PromptRaises
    \/ StartTlsDelivers
    \/ StartTlsFails
    \/ StartTlsQuitFails
    \/ SmtpsDelivers
    \/ SmtpsFails
    \/ SmtpsQuitFails
    \/ MarkSent
    \/ MarkSentRaises
    \/ MarkFailed
    \/ MarkFailedRaises
    \/ Done

ResendSpec == ResendInit /\ [][ResendNext]_vars

\* the script under the assumption that it is not suspended for ever: every
\* call it makes returns or raises
ResendFairSpec == ResendInit /\ [][ResendNext]_vars /\ WF_vars(ResendNext)

(***************************************************************************)
(* Claims on resend_unsent_reports                                         *)
(***************************************************************************)
\* the script is inside its send loop
InLoop == rpc \in {"loop", "fallback", "record", "handler"}

\* the last lines of the runs that end with status 0 before any confirmation
QuietEndings == {"already emailed", "none unsent", "dry-run complete"}

\* the last lines of the runs that end with status 1 before the listing
EarlyFailures == {"no From address", "no Firestore client", "traceback", "not found"}

Typed(text) == ans = <<text>>

\* C19 as stated: an SMTP session is opened, or the send loop entered, only
\* with --send and after --yes, CI=true or the answer 'YES' exactly; any
\* other answer ends the script with status 0 and nothing sent.
C19_LoopOnlyAfterExactYes ==
    /\ InLoop \/ smtpLog # <<>> =>
           args.send /\ (args.yes \/ environ.ci \/ Typed(YES))
    /\ ans # <<>> /\ ~Typed(YES) =>
           rpc = "exit" /\ status = <<0>> /\ smtpLog = <<>>

\* C19 amended: the send loop is entered, an SMTP session opened and a
\* report updated only with --send and after --yes, CI=true or an answer
\* that is 'YES' once its surrounding whitespace is stripped; any other
\* answer ends the script at once with status 0, no session opened and no
\* report updated.
C19_LoopOnlyAfterStrippedYes ==
    /\ [](InLoop \/ smtpLog # <<>> =>
              /\ args.send
              /\ args.yes \/ environ.ci \/ (ans # <<>> /\ Strip(ans[1]) = YES))
    /\ [](ans # <<>> /\ Strip(ans[1]) # YES =>
              /\ rpc = "exit"
              /\ status = <<0>>
              /\ message = "aborted"
              /\ smtpLog = <<>>)
    /\ [][db' # db => InLoop /\ smtpLog # <<>>]_vars
    /\ [][rpc = "listed" => db' = db /\ smtpLog' = smtpLog]_vars

\* C19 witness: the prompt was answered ' YES ' and a session delivered the
\* message of a report, which was then marked as sent.
C19_Witness ==
    /\ args.send
    /\ ~args.yes
    /\ ~environ.ci
    /\ Typed(<<SP>> \o YES \o <<SP>>)
    /\ \E i \in DOMAIN smtpLog :
           /\ smtpLog[i].delivered
           /\ db[smtpLog[i].report].emailSent = "True"

\* the reports for which an SMTP session was opened
Attempted == {smtpLog[i].report : i \in DOMAIN smtpLog}

\* C20: with --limit N and N > 0, sessions are opened for at most N reports
\* in a run.
C20_AtMostLimitAttempted ==
    args.limit > 0 => Cardinality(Attempted) <= args.limit

\* the sessions opened for a report, as positions of the SMTP log
SessionsOf(r) == {i \in DOMAIN smtpLog : smtpLog[i].report = r}

\* some session handed the message of the report to the server
Delivered(r) == \E i \in SessionsOf(r) : smtpLog[i].delivered

\* the handler of the loop recorded the report as failed in this run
RecordedFailed(r) == db[r].emailError # <<>>

\* C21: a report none of whose sessions delivered is recorded as failed only
\* after the first attempt and args.retries further ones, each attempt being
\* at least one SMTP session.
C21_FailedOnlyAfterRetries ==
    \A r \in Reports :
        RecordedFailed(r) /\ ~Delivered(r) =>
            Cardinality(SessionsOf(r)) >= 1 + args.retries

\* the reports whose iteration of the send loop is over
Processed == {unsent[i] : i \in 1..(cursor - 1)}

\* C23: once the send loop has processed a report, its emailSent is True if
\* and only if a session delivered its message.
C23_SentFlagIffDelivered ==
    \A r \in Processed : db[r].emailSent = "True" <=> Delivered(r)

\* the session at position i of the log follows, for the same report, a
\* STARTTLS session that ended with an exception
AfterFailedStartTls(i) ==
    /\ i > 1
    /\ smtpLog[i - 1].report = smtpLog[i].report
    /\ smtpLog[i - 1].method = "starttls"
    /\ smtpLog[i - 1].raised

\* the order of the strategies in the log
FixedOrder ==
    \A i \in DOMAIN smtpLog :
        /\ smtpLog[i].method = "starttls" =>
               environ.starttls /\ (i > 1 => smtpLog[i - 1].report # smtpLog[i].report)
        /\ smtpLog[i].method = "smtps" => ~environ.starttls \/ AfterFailedStartTls(i)

\* C24: the first session of a report is the STARTTLS one when STARTTLS is
\* enabled, an SMTPS session is opened only when STARTTLS is disabled or
\* its attempt failed, and the message of a report is delivered at most once.
C24_FixedOrderDeliveredOnce ==
    /\ FixedOrder
    /\ \A r \in Reports :
           Cardinality({i \in SessionsOf(r) : smtpLog[i].delivered}) <= 1

\* the reports in scope: the report of --id, else those of the window
InScope == IF args.id # NoId THEN {args.id} \cap Reports
           ELSE {r \in Reports : db[r].inWindow}

\* the members of a list
Members(list) == {list[i] : i \in DOMAIN list}

\* a list of reports is in ascending order of createdAt, without repetition
Ascending(list) == \A i, j \in DOMAIN list : i < j => list[i] < list[j]

\* C25: the step that ends the selection lists exactly the reports in scope
\* whose emailSent is not True, in ascending order of createdAt; when it
\* ends the script with status 0 instead, no report in scope has another
\* value than True, and with --id the report named is marked True; the
\* list is never changed afterwards and sessions are opened for its
\* members only.
C25_SelectsExactlyNotTrue ==
    /\ [][rpc = "start" /\ rpc' = "listed" =>
              /\ Members(unsent') = {r \in InScope : db[r].emailSent # "True"}
              /\ Ascending(unsent')]_vars
    /\ [][rpc = "start" /\ rpc' = "exit" /\ status' = <<0>> =>
              /\ unsent' = <<>>
              /\ \A r \in InScope : db[r].emailSent = "True"
              /\ args.id # NoId => InScope # {}]_vars
    /\ [][unsent' # unsent => rpc = "start" /\ rpc' = "listed"]_vars
    /\ [](\A i \in DOMAIN smtpLog : smtpLog[i].report \in Members(unsent))

\* C25 witness: in window mode a report marked True is left out and a report
\* whose emailSent is missing or another value is listed.
C25_Witness ==
    /\ rpc = "listed"
    /\ args.id = NoId
    /\ \E r \in Reports :
           db[r].inWindow /\ db[r].emailSent = "True" /\ r \notin Members(unsent)
    /\ \E r \in Members(unsent) : db[r].emailSent \in {"absent", "other"}

\* the sessions of a report are those of one iteration: at most one of
\* each strategy
OneIteration(r) ==
    \A i, j \in SessionsOf(r) : smtpLog[i].method = smtpLog[j].method => i = j

\* the log follows the order of the list: the processed reports and, once
\* its first session is opened, the running one have sessions, the later
\* ones have none, and the sessions come in the order of the list
InListOrder ==
    /\ \A k \in DOMAIN unsent :
           /\ k < cursor => SessionsOf(unsent[k]) # {}
           /\ k > cursor => SessionsOf(unsent[k]) = {}
           /\ k = cursor /\ rpc \in {"fallback", "record", "handler"} =>
                  SessionsOf(unsent[k]) # {}
           /\ OneIteration(unsent[k])
    /\ \A i, j \in DOMAIN smtpLog : i < j => smtpLog[i].report <= smtpLog[j].report

PLANS ==
    [free       |-> [monthly_cost |-> 0, yearly_cost |-> <<>>, included_premium |-> 50,
                     overage_enabled |-> FALSE, overage_rate |-> 0],
     pro        |-> [monthly_cost |-> 10, yearly_cost |-> <<100>>, included_premium |-> 300,
                     overage_enabled |-> TRUE, overage_rate |-> 4],
     pro_plus   |-> [monthly_cost |-> 39, yearly_cost |-> <<390>>, included_premium |-> 1500,
                     overage_enabled |-> TRUE, overage_rate |-> 4],
     business   |-> [monthly_cost |-> 19, yearly_cost |-> <<>>, included_premium |-> 300,
                     overage_enabled |-> TRUE, overage_rate |-> 4],
     enterprise |-> [monthly_cost |-> 39, yearly_cost |-> <<>>, included_premium |-> 1000,
                     overage_enabled |-> TRUE, overage_rate |-> 4]]

\* round(num / den) for num >= 0 and den > 0
RoundDiv(num, den) == (2 * num + den) \div (2 * den)

\* base_cost of calculate_bill in twelfths of a dollar
BaseCostTwelfths(plan_key, billing_cycle) ==
    LET plan == PLANS[plan_key]
    IN  IF billing_cycle = "yearly" /\ plan.yearly_cost # <<>>
        THEN plan.yearly_cost[1]
        ELSE 12 * plan.monthly_cost

\* calculate_bill for the usage num/den tenths of a percent.  With the
\* cents over the denominator 60 * den: the base cost is
\* 500 * den * twelfths, and overage * overage_rate is
\* (included / 50) * rate * 3 * (num - 1000 * den).
calculate_bill(num, den, plan_key, billing_cycle) ==
    LET plan == PLANS[plan_key]
        included == plan.included_premium
        over == num > 1000 * den
        base == 500 * den * BaseCostTwelfths(plan_key, billing_cycle)
        overage_cost == IF plan.overage_enabled /\ over
                        THEN (included \div 50) * plan.overage_rate * 3 * (num - 1000 * den)
                        ELSE 0
    IN  [base_cost |-> RoundDiv(base, 60 * den),
         overage_rate |-> plan.overage_rate,
         overage_cost |-> RoundDiv(overage_cost, 60 * den),
         total_cost |-> RoundDiv(base + overage_cost, 60 * den)]

\* project_end_of_month: the bill of the usage so far scaled by
\* days_in_month / current_day, or unscaled when current_day is not positive
project_end_of_month(percent, current_day, days_in_month, plan_key, billing_cycle) ==
    IF current_day > 0
    THEN calculate_bill(percent * days_in_month, current_day, plan_key, billing_cycle)
    ELSE calculate_bill(percent, 1, plan_key, billing_cycle)

\* the percentages that may be given or typed: 0%, 100%, steps of 0.1% over
\* it, and 423.2%
Percents == {0, 1000, 4232} \cup {1000 + k : k \in 1..MaxOverSteps}

\* the budgets that may be given, in tenths of a cent: $0, $8.333, $39
Budgets == {0, 8333, 39000}

\* the value of COPILOT_MONTHLY_BUDGET: unset, '', not a number, or a number
EnvBudgets ==
    {[kind |-> k, value |-> 0] : k \in {"unset", "empty", "invalid"}}
        \cup {[kind |-> "number", value |-> b] : b \in Budgets}

\* what standard input holds for the prompt: nothing, a text that is not a
\* number, or a percentage
StdinLines ==
    {[kind |-> k, value |-> 0] : k \in {"eof", "invalid"}}
        \cup {[kind |-> "number", value |-> 1000 + MaxOverSteps]}

\* datetime.now: the day of the month and the days of the month
Today == [day |-> 15, days |-> 30]

\* the namespaces parse_args may return
Namespaces ==
    [percent : {<<>>} \cup {<<p>> : p \in Percents},
     plan : DOMAIN PLANS,
     billing : {"monthly", "yearly"},
     day : {<<>>, <<0>>, <<1>>, <<3>>},
     days_in_month : {<<>>, <<0>>, <<3>>},
     budget : {<<>>} \cup {<<b>> : b \in Budgets},
     json : BOOLEAN]

\* the namespace of the command line without arguments
DefaultNamespace ==
    [percent |-> <<>>, plan |-> "pro_plus", billing |-> "monthly", day |-> <<>>,
     days_in_month |-> <<>>, budget |-> <<>>, json |-> FALSE]

\* the environments drawn for a namespace: the budget variable is varied
\* without --budget, the token and standard input without --percent, and a
\* command line argparse rejects has no namespace
Environs(a) ==
    {e \in [argv_valid : BOOLEAN, env_budget : EnvBudgets, token : BOOLEAN, stdin : StdinLines] :
        /\ a.budget # <<>> => e.env_budget.kind = "unset"
        /\ a.percent # <<>> => ~e.token /\ e.stdin.kind = "eof"
        /\ ~e.argv_valid =>
               a = DefaultNamespace /\ e.env_budget.kind = "unset" /\ e.stdin.kind = "eof"}

\* sys.exit(code), an uncaught exception (1), or the end of main (0)
ExitUsage(code) ==
    /\ upc' = "exit"
    /\ ustatus' = <<code>>

\* parse_args: argparse rejects the command line and exits 2
ParseArgsFails ==
    /\ upc = "start"
    /\ ~uenviron.argv_valid
    /\ ExitUsage(2)
    /\ UNCHANGED <<uargs, uenviron, budget, usage_percent, bill, projection,
                   mainVars, parseVars, resendVars>>

\* budget is --budget, else the number in COPILOT_MONTHLY_BUDGET, else None
ResolvedBudget ==
    IF uargs.budget # <<>> THEN uargs.budget
    ELSE IF uenviron.env_budget.kind = "number" THEN <<uenviron.env_budget.value>>
    ELSE <<>>

\* main up to the test of usage_percent: the budget is resolved
ResolveBudget ==
    /\ upc = "start"
    /\ uenviron.argv_valid
    /\ uargs.budget # <<>> \/ uenviron.env_budget.kind # "invalid"
    /\ budget' = ResolvedBudget
    /\ usage_percent' = uargs.percent
    /\ upc' = IF uargs.percent # <<>> THEN "calculate"
              ELSE IF uenviron.token THEN "fetch" ELSE "prompt"
    /\ UNCHANGED <<uargs, uenviron, bill, projection, ustatus,
                   mainVars, parseVars, resendVars>>

\* float(env_budget) raises ValueError: nothing catches it
ResolveBudgetRaises ==
    /\ upc = "start"
    /\ uenviron.argv_valid
    /\ uargs.budget = <<>>
    /\ uenviron.env_budget.kind = "invalid"
    /\ ExitUsage(1)
    /\ UNCHANGED <<uargs, uenviron, budget, usage_percent, bill, projection,
                   mainVars, parseVars, resendVars>>

\* fetch_copilot_info returns, a dict or None: main only prints
FetchReturns ==
    /\ upc = "fetch"
    /\ upc' = "prompt"
    /\ UNCHANGED <<uargs, uenviron, budget, usage_percent, bill, projection, ustatus,
                   mainVars, parseVars, resendVars>>

\* fetch_copilot_info raises what it does not catch (the answer is not JSON)
FetchRaises ==
    /\ upc = "fetch"
    /\ ExitUsage(1)
    /\ UNCHANGED <<uargs, uenviron, budget, usage_percent, bill, projection,
                   mainVars, parseVars, resendVars>>

\* the prompt reads a number
PromptPercent ==
    /\ upc = "prompt"
    /\ uenviron.stdin.kind = "number"
    /\ usage_percent' = <<uenviron.stdin.value>>
    /\ upc' = "calculate"
    /\ UNCHANGED <<uargs, uenviron, budget, bill, projection, ustatus,
                   mainVars, parseVars, resendVars>>

\* the prompt reads no number: ValueError or EOFError, sys.exit(1)
PromptInvalid ==
    /\ upc = "prompt"
    /\ uenviron.stdin.kind # "number"
    /\ ExitUsage(1)
    /\ UNCHANGED <<uargs, uenviron, budget, usage_percent, bill, projection,
                   mainVars, parseVars, resendVars>>

\* current_day of main
current_day == IF uargs.day # <<>> THEN uargs.day[1] ELSE Today.day

\* days_in_month of main: args.days_in_month or that of the current month
days_in_month ==
    IF uargs.days_in_month # <<>> /\ uargs.days_in_month[1] # 0
    THEN uargs.days_in_month[1]
    ELSE Today.days

\* the bill and, before the end of the month, the projection
Calculate ==
    /\ upc = "calculate"
    /\ bill' = <<calculate_bill(usage_percent[1], 1, uargs.plan, uargs.billing)>>
    /\ projection' =
           IF current_day < days_in_month
           THEN <<project_end_of_month(usage_percent[1], current_day, days_in_month,
                                       uargs.plan, uargs.billing)>>
           ELSE <<>>
    /\ upc' = "output"
    /\ UNCHANGED <<uargs, uenviron, budget, usage_percent, ustatus,
                   mainVars, parseVars, resendVars>>

\* projection or bill
Target == IF projection # <<>> THEN projection[1] ELSE bill[1]

\* a cost in cents is greater than a budget in tenths of a cent
Exceeds(cost, amount) == 10 * cost > amount

\* print_budget_alert divides by the budget when the total exceeds it
BudgetAlertDividesByZero ==
    /\ budget # <<>>
    /\ Exceeds(Target.total_cost, budget[1])
    /\ budget[1] = 0

\* --json: print_json_output
OutputJson ==
    /\ upc = "output"
    /\ uargs.json
    /\ upc' = "check"
    /\ UNCHANGED <<uargs, uenviron, budget, usage_percent, bill, projection, ustatus,
                   mainVars, parseVars, resendVars>>

\* text mode: print_bill, print_projection, print_budget_alert
OutputText ==
    /\ upc = "output"
    /\ ~uargs.json
    /\ ~BudgetAlertDividesByZero
    /\ upc' = "check"
    /\ UNCHANGED <<uargs, uenviron, budget, usage_percent, bill, projection, ustatus,
                   mainVars, parseVars, resendVars>>

\* text mode: print_budget_alert raises ZeroDivisionError, nothing catches it
BudgetAlertRaises ==
    /\ upc = "output"
    /\ ~uargs.json
    /\ BudgetAlertDividesByZero
    /\ ExitUsage(1)
    /\ UNCHANGED <<uargs, uenviron, budget, usage_percent, bill, projection,
                   mainVars, parseVars, resendVars>>

\* the last test of main: over budget, sys.exit(2)
OverBudget ==
    /\ upc = "check"
    /\ budget # <<>>
    /\ Exceeds(Target.total_cost, budget[1])
    /\ ExitUsage(2)
    /\ UNCHANGED <<uargs, uenviron, budget, usage_percent, bill, projection,
                   mainVars, parseVars, resendVars>>

\* the last test of main fails: main returns
WithinBudget ==
    /\ upc = "check"
    /\ ~(budget # <<>> /\ Exceeds(Target.total_cost, budget[1]))
    /\ ExitUsage(0)
    /\ UNCHANGED <<uargs, uenviron, budget, usage_percent, bill, projection,
                   mainVars, parseVars, resendVars>>

\* the script starts: a command line and an environment
UsageInit ==
    /\ uargs \in Namespaces
    /\ uenviron \in Environs(uargs)
    /\ budget = <<>>
    /\ usage_percent = <<>>
    /\ bill = <<>>
    /\ projection = <<>>
    /\ upc = "start"
    /\ ustatus = <<>>
    /\ ResendIdle
    /\ dirExists = TRUE
    /\ dir = <<>>
    /\ outputFile = <<>>
    /\ pc = "idle"
    /\ todo = <<>>
    /\ scanned = 0
    /\ tones = <<>>
    /\ skipped = 0
    /\ seen = <<>>
    /\ idx = 1
    /\ exitCode = <<>>
    /\ pfile = [name |-> <<>>, readable |-> FALSE, content |-> <<>>]
    /\ presult = <<>>
    /\ ppc = "idle"

UsageNext ==
    \/ ParseArgsFails
    \/ ResolveBudget
    \/ ResolveBudgetRaises
    \/ FetchReturns
    \/ FetchRaises
    \/ PromptPercent
    \/ PromptInvalid
    \/ Calculate
    \/ OutputJson
    \/ OutputText
    \/ BudgetAlertRaises
    \/ OverBudget
    \/ WithinBudget

UsageSpec == UsageInit /\ [][UsageNext]_vars

(***************************************************************************)
(* Claims on copilot_usage                                                 *)
(***************************************************************************)
\* a budget is set, by --budget or by a number in COPILOT_MONTHLY_BUDGET
BudgetSet == uargs.budget # <<>> \/ uenviron.env_budget.kind = "number"

\* the budget that is set
BudgetGiven ==
    IF uargs.budget # <<>> THEN uargs.budget[1] ELSE uenviron.env_budget.value

\* C22: a run that has computed its bill ends with status 2 if a budget is
\* set and the total cost of the target (the projection when there is one,
\* else the bill) is greater than it, and with status 0 otherwise, with
\* --json and without.
C22_ExitTwoIffOverBudget ==
    upc = "exit" /\ bill # <<>> =>
        IF BudgetSet /\ Exceeds(Target.total_cost, BudgetGiven)
        THEN ustatus = <<2>>
        ELSE ustatus = <<0>>

=============================================================================
